---- MODULE Spec2Model ----
(***************************************************************************)
(* A model of rxml: the tag lexer and tag parser (src/src/parsetag.rs),    *)
(* the document lexer and the document parser (src/src/parsedoc.rs) and    *)
(* the node tree they build (src/src/api.rs).                              *)
(*                                                                         *)
(* Strings are sequences of one-character strings; offsets are 0-based as  *)
(* in the source, so the character at offset i of s is s[i + 1].  The      *)
(* alphabet is ASCII: one character is one byte.                           *)
(***************************************************************************)
EXTENDS Integers, Sequences, FiniteSets, TLC

----------------------------------------------------------------------------
(* Characters *)

\* the '\0' that current() returns at or past the end of the input
NUL == "NUL"

Whitespace == {" ", "\n"}

Alphabetic == {"a", "b", "c", "j", "k", "v", "w", "x"}

Numeric == {"0", "5"}

is_whitespace(c) == c \in Whitespace

is_alphabetic(c) == c \in Alphabetic

is_alphanumeric(c) == c \in Alphabetic \cup Numeric

\* &s[i..j] : the slice of s from offset i (inclusive) to offset j (exclusive)
Slice(s, i, j) == SubSeq(s, i + 1, j)

RECURSIVE Concat(_)
\* the concatenation of a sequence of strings
Concat(ss) == IF ss = <<>> THEN <<>> ELSE Head(ss) \o Concat(Tail(ss))

----------------------------------------------------------------------------
(* TagLexer *)

\* TagLexer::end
TagLexer_end(content, pos) == pos >= Len(content)

\* TagLexer::current
TagLexer_current(content, pos) ==
    IF TagLexer_end(content, pos) THEN NUL ELSE content[pos + 1]

TagTok(kind, text, position, cur) ==
    [res |-> "Ok", kind |-> kind, text |-> text, position |-> position, cur |-> cur]

TagLexErr(e) == [res |-> "Err", err |-> e]

TagPanic == [res |-> "Panic"]

UnterminatedStringLiteral(loc) == [kind |-> "UnterminatedStringLiteral", loc |-> loc]

RECURSIVE ScanLiteral(_, _, _)
\* the loop of the literal branch: the offset of the closing quote, or -1 when
\* the end of the input is reached first
ScanLiteral(content, pos, quote_type) ==
    IF TagLexer_current(content, pos) # quote_type
    THEN IF TagLexer_end(content, pos) THEN -1
         ELSE ScanLiteral(content, pos + 1, quote_type)
    ELSE pos

RECURSIVE ScanString(_, _)
\* the loop of the identifier branch: the offset after the identifier
ScanString(content, pos) ==
    IF ~TagLexer_end(content, pos)
       /\ (is_alphanumeric(TagLexer_current(content, pos))
           \/ TagLexer_current(content, pos) = "_")
    THEN ScanString(content, pos + 1)
    ELSE pos

RECURSIVE ScanUnknown(_, _)
\* the loop of the last branch: the offset of the next whitespace or the end
ScanUnknown(content, pos) ==
    IF ~is_whitespace(TagLexer_current(content, pos)) /\ ~TagLexer_end(content, pos)
    THEN ScanUnknown(content, pos + 1)
    ELSE pos

\* the token of kind from start to the cursor cur
TagSpan(content, kind, start, cur) == TagTok(kind, Slice(content, start, cur), start, cur)

TagLiteralInner(content, start, close) ==
    IF close < 0 THEN TagLexErr(UnterminatedStringLiteral(start))
    ELSE TagTok("StringLiteral", Slice(content, start + 1, close), start, close + 1)

\* the end of the literal branch, close being what ScanLiteral found
TagLiteral(content, start, close) ==
    IF close < 0 THEN TagLexErr(UnterminatedStringLiteral(start))
    ELSE TagSpan(content, "StringLiteral", start, close + 1)

\* the branches of TagLexer::next_token, c being current()
TagLexer_branch(content, start, c) ==
    IF TagLexer_end(content, start)
    THEN \* &content[len - 1..len - 1]: len - 1 underflows on the empty input
         IF Len(content) = 0 THEN TagPanic
         ELSE TagTok("EndOfLine", <<>>, Len(content), start)
    ELSE IF is_whitespace(c)
    THEN TagSpan(content, "Whitespace", start, start + 1)
    ELSE IF c = "'" \/ c = "\""
    THEN TagLiteral(content, start, ScanLiteral(content, start + 1, c))
    ELSE IF is_alphabetic(c) \/ c = "_"
    THEN TagSpan(content, "String", start, ScanString(content, start))
    ELSE IF c = "="
    THEN TagSpan(content, "Equals", start, start + 1)
    ELSE IF c = "/"
    THEN TagSpan(content, "ForwardSlash", start, start + 1)
    ELSE TagSpan(content, "Unknown", start, ScanUnknown(content, start + 1))

\* TagLexer::next_token with the cursor at start: the token and the cursor
\* after it, the error, or a panic
TagLexer_next_token(content, start) ==
    TagLexer_branch(content, start, TagLexer_current(content, start))

----------------------------------------------------------------------------
(* TagParser *)

\* TagParser::new: one leading "<" and one trailing ">" are stripped together
TagParser_new(content) ==
    IF Len(content) > 0 /\ content[1] = "<" /\ content[Len(content)] = ">"
    THEN Slice(content, 1, Len(content) - 1)
    ELSE content

\* what tokenize pushes: the token without the lexer's cursor
Pushed(t) == [kind |-> t.kind, text |-> t.text, position |-> t.position]

TokenizeStepKeepingWhitespace(tokens, t) == Append(tokens, Pushed(t))

\* the body of the loop of tokenize, t being what next_token returned: the
\* tokens after it
TokenizeStep(tokens, t) ==
    IF t.kind = "Whitespace" THEN tokens ELSE Append(tokens, Pushed(t))

RECURSIVE TokenizeFrom(_, _, _)
\* TagParser::tokenize with tokens already pushed, t being what next_token
\* returned
TokenizeFrom(content, tokens, t) ==
    IF t.res # "Ok" THEN t
    ELSE IF t.kind = "EndOfLine" THEN [res |-> "Ok", tokens |-> tokens]
    ELSE TokenizeFrom(content, TokenizeStep(tokens, t), TagLexer_next_token(content, t.cur))

TagParser_tokenize(content) == TokenizeFrom(content, <<>>, TagLexer_next_token(content, 0))

TagParser_peekFromZero(tokens, position, offset) ==
    IF position + offset < 0 \/ position + offset >= Len(tokens)
    THEN -1
    ELSE position + offset

\* TagParser::peek with the parser at token index position: the index looked
\* at, or -1 for PeekOutOfBounds
TagParser_peek(tokens, position, offset) ==
    IF position + offset < 1 \/ position + offset >= Len(tokens)
    THEN -1
    ELSE position + offset

\* what peek returns out of range (it is -1 in TagParser_peek)
PeekOutOfBounds(offset, cur_idx, len) ==
    [kind |-> "PeekOutOfBounds", offset |-> offset, cur_idx |-> cur_idx, len |-> len]

NoTokenAtLocation(expected_kind, direction, current) ==
    [kind |-> "NoTokenAtLocation", expected_kind |-> expected_kind,
     direction |-> direction, current |-> current]

UnexpectedTagToken == [kind |-> "UnexpectedTagToken"]

TagInvalidFirstToken == [kind |-> "InvalidFirstToken"]

StripQuotesKept(text) == text

StripQuotesFirst(text) == Slice(text, 1, Len(text))

\* &right.text[1..right.text.len() - 1]
StripQuotes(text) == Slice(text, 1, Len(text) - 1)

InsertKeepFirst(attribs, k, v) ==
    [x \in DOMAIN attribs \cup {k} |-> IF x \in DOMAIN attribs THEN attribs[x] ELSE v]

\* attribs.insert(k, v)
Insert(attribs, k, v) ==
    [x \in DOMAIN attribs \cup {k} |-> IF x = k THEN v ELSE attribs[x]]

\* the head of TagParser::parse: the kind, the name and the index the
\* attribute loop starts at
TagParser_first(tokens) ==
    IF Len(tokens) = 0 THEN TagPanic                \* cur_token: tkns[0]
    ELSE IF tokens[1].kind = "String"
    THEN [res |-> "Ok", kind |-> "Opening", name |-> tokens[1].text, position |-> 0]
    ELSE IF tokens[1].kind = "ForwardSlash"
    THEN IF Len(tokens) < 2 THEN TagPanic           \* cur_token: tkns[1]
         ELSE IF tokens[2].kind = "String"
         THEN [res |-> "Ok", kind |-> "Closing", name |-> tokens[2].text, position |-> 1]
         ELSE TagLexErr(TagInvalidFirstToken)
    ELSE TagLexErr(TagInvalidFirstToken)

TagParser_equalsKindsIgnored(tokens, attribs, l, r) ==
    IF l < 0 THEN TagLexErr(NoTokenAtLocation("String", "left", "Equals"))
    ELSE IF r < 0 THEN TagLexErr(NoTokenAtLocation("StringLiteral", "right", "Equals"))
    ELSE [res |-> "Ok",
          attribs |-> Insert(attribs, tokens[l + 1].text, StripQuotes(tokens[r + 1].text))]

TagParser_equalsPeekReturned(tokens, attribs, l, r) ==
    IF l < 0 THEN TagLexErr(PeekOutOfBounds(-1, 1, Len(tokens)))
    ELSE IF r < 0 THEN TagLexErr(PeekOutOfBounds(1, Len(tokens) - 1, Len(tokens)))
    ELSE IF tokens[l + 1].kind = "String" /\ tokens[r + 1].kind = "StringLiteral"
    THEN [res |-> "Ok",
          attribs |-> Insert(attribs, tokens[l + 1].text, StripQuotes(tokens[r + 1].text))]
    ELSE TagLexErr(UnexpectedTagToken)

TagParser_equalsRightIgnored(tokens, attribs, l, r) ==
    IF l < 0 THEN TagLexErr(NoTokenAtLocation("String", "left", "Equals"))
    ELSE IF r < 0 THEN [res |-> "Ok", attribs |-> attribs]
    ELSE IF tokens[l + 1].kind = "String" /\ tokens[r + 1].kind = "StringLiteral"
    THEN [res |-> "Ok",
          attribs |-> Insert(attribs, tokens[l + 1].text, StripQuotes(tokens[r + 1].text))]
    ELSE TagLexErr(UnexpectedTagToken)

\* the Equals branch of the attribute loop, l and r being what peek(-1) and
\* peek(1) returned
TagParser_equals(tokens, attribs, l, r) ==
    IF l < 0 THEN TagLexErr(NoTokenAtLocation("String", "left", "Equals"))
    ELSE IF r < 0 THEN TagLexErr(NoTokenAtLocation("StringLiteral", "right", "Equals"))
    ELSE IF tokens[l + 1].kind = "String" /\ tokens[r + 1].kind = "StringLiteral"
    THEN [res |-> "Ok",
          attribs |-> Insert(attribs, tokens[l + 1].text, StripQuotes(tokens[r + 1].text))]
    ELSE TagLexErr(UnexpectedTagToken)

TagParser_stepBareKeys(tokens, position, attribs) ==
    IF tokens[position + 1].kind = "String" /\ position >= 1
       /\ (position + 2 > Len(tokens) \/ tokens[position + 2].kind # "Equals")
    THEN [res |-> "Ok", attribs |-> Insert(attribs, tokens[position + 1].text, <<>>)]
    ELSE IF tokens[position + 1].kind # "Equals" THEN [res |-> "Ok", attribs |-> attribs]
    ELSE TagParser_equals(tokens, attribs, TagParser_peek(tokens, position, -1),
                          TagParser_peek(tokens, position, 1))

\* one iteration of the attribute loop of TagParser::parse, at token index
\* position: the attributes after it, or the error
TagParser_step(tokens, position, attribs) ==
    IF tokens[position + 1].kind # "Equals" THEN [res |-> "Ok", attribs |-> attribs]
    ELSE TagParser_equals(tokens, attribs, TagParser_peek(tokens, position, -1),
                          TagParser_peek(tokens, position, 1))

RECURSIVE TagParser_loop(_, _, _)
\* the attribute loop of TagParser::parse at token index position, s being
\* the outcome of the iterations before it
TagParser_loop(tokens, position, s) ==
    IF s.res # "Ok" \/ position >= Len(tokens) THEN s
    ELSE TagParser_loop(tokens, position + 1, TagParser_step(tokens, position, s.attribs))

\* the descriptor: name, attributes, kind and the offset the tag began at
BaseXMLTag(name, attribs, kind, pos) ==
    [name |-> name, attribs |-> attribs, kind |-> kind, pos |-> pos]

\* the end of TagParser::parse: f the outcome of its head, a of its loop
TagParser_return(f, a, pos) ==
    IF a.res # "Ok" THEN a
    ELSE [res |-> "Ok", tag |-> BaseXMLTag(f.name, a.attribs, f.kind, pos)]

\* TagParser::parse after its head, whose outcome is f
TagParser_attributes(tokens, f, pos) ==
    IF f.res # "Ok" THEN f
    ELSE TagParser_return(f, TagParser_loop(tokens, f.position, [res |-> "Ok", attribs |-> <<>>]), pos)

\* TagParser::parse after tokenize, whose outcome is tk
TagParser_tokenized(tk, pos) ==
    IF tk.res # "Ok" THEN tk
    ELSE TagParser_attributes(tk.tokens, TagParser_first(tk.tokens), pos)

\* TagParser::new(text, pos).parse()
TagParser_parse(text, pos) ==
    TagParser_tokenized(TagParser_tokenize(TagParser_new(text)), pos)

----------------------------------------------------------------------------
(* The node tree (api.rs).  Nodes live in an arena: a node reference        *)
(* (Rc<XMLNode>) is the node's index in nodes.                              *)

\* XMLTag::from
XMLTag_from(base) == [pos |-> base.pos, name |-> base.name, attributes |-> base.attribs]

\* XMLNode::new
XMLNode_new(tag) == [tag |-> tag, content |-> <<>>, children |-> <<>>]

push_childFirst(ns, node, child) ==
    [ns EXCEPT ![node].children = <<child>> \o @]

\* node.children.borrow_mut().push(child)
push_child(ns, node, child) ==
    [ns EXCEPT ![node].children = Append(@, child)]

push_contentPrepended(ns, node, text) ==
    [ns EXCEPT ![node].content = text \o @]

\* XMLNode::push_content
push_content(ns, node, text) ==
    [ns EXCEPT ![node].content = @ \o text]

----------------------------------------------------------------------------
(* ParseError (error.rs) *)

UnterminatedAngularBracket(loc) == [kind |-> "UnterminatedAngularBracket", loc |-> loc]

TagParseError(e) == [kind |-> "TagParseError", inner |-> e]

NoTokensToParse == [kind |-> "NoTokensToParse"]

InvalidFirstToken == [kind |-> "InvalidFirstToken"]

UnexpectedClosingTag(expected, obtained, position) ==
    [kind |-> "UnexpectedClosingTag", expected |-> expected, obtained |-> obtained,
     position |-> position]

ClosingTagNeverOpened(obtained, position) ==
    [kind |-> "ClosingTagNeverOpened", obtained |-> obtained, position |-> position]

----------------------------------------------------------------------------
(* XMLLexer *)

\* XMLLexer::end
XMLLexer_end(doc, pos) == pos >= Len(doc)

\* XMLLexer::current
XMLLexer_current(doc, pos) ==
    IF XMLLexer_end(doc, pos) THEN NUL ELSE doc[pos + 1]

DocTok(kind, text, position, cur) ==
    [res |-> "Ok", kind |-> kind, text |-> text, position |-> position, cur |-> cur]

DocErr(e, cur) == [res |-> "Err", err |-> e, cur |-> cur]

DocPanic(cur) == [res |-> "Panic", cur |-> cur]

\* the else branch of next_token is a loop that is run one iteration at a time
DocScan == [res |-> "Scan"]

RECURSIVE ScanTagQuoted(_, _)
ScanTagQuoted(doc, pos) ==
    IF XMLLexer_end(doc, pos) THEN -1
    ELSE IF XMLLexer_current(doc, pos) \in {"'", "\""}
    THEN IF ScanLiteral(doc, pos + 1, XMLLexer_current(doc, pos)) < 0 THEN -1
         ELSE ScanTagQuoted(doc, ScanLiteral(doc, pos + 1, XMLLexer_current(doc, pos)) + 1)
    ELSE IF XMLLexer_current(doc, pos) # ">" THEN ScanTagQuoted(doc, pos + 1)
    ELSE pos

RECURSIVE ScanTag(_, _)
\* the loop of the "<" branch: the offset of the first ">" at or after pos, or
\* -1 when the end of the input is reached first
ScanTag(doc, pos) ==
    IF XMLLexer_current(doc, pos) # ">"
    THEN IF XMLLexer_end(doc, pos) THEN -1 ELSE ScanTag(doc, pos + 1)
    ELSE pos

UnterminatedAtCursor(start, cur) == DocErr(UnterminatedAngularBracket(cur), cur)

\* return Err(UnterminatedAngularBracket(start)), the cursor being at cur
UnterminatedAt(start, cur) == DocErr(UnterminatedAngularBracket(start), cur)

TagTokenAtCursor(tagtext, start, cur, t) ==
    IF t.res = "Panic" THEN DocPanic(cur)
    ELSE IF t.res = "Err" THEN DocErr(TagParseError(t.err), cur)
    ELSE [res |-> "Ok", kind |-> "Tag", tag |-> t.tag, text |-> tagtext,
          position |-> cur, cur |-> cur]

\* the end of the "<" branch: t is what tagparser.parse() returned on tagtext
TagToken(tagtext, start, cur, t) ==
    IF t.res = "Panic" THEN DocPanic(cur)
    ELSE IF t.res = "Err" THEN DocErr(TagParseError(t.err), cur)
    ELSE [res |-> "Ok", kind |-> "Tag", tag |-> t.tag, text |-> tagtext,
          position |-> start, cur |-> cur]

\* the "<" branch after its loop, close being what ScanTag found
TagBranch(doc, start, close) ==
    IF close < 0 THEN UnterminatedAt(start, Len(doc))
    ELSE TagToken(Slice(doc, start, close + 1), start, close + 1,
                  TagParser_parse(Slice(doc, start, close + 1), start))

\* the branches of XMLLexer::next_token, c being current()
XMLLexer_branch(doc, start, c) ==
    IF XMLLexer_end(doc, start)
    THEN \* &content[len - 1..len - 1]: len - 1 underflows on the empty input
         IF Len(doc) = 0 THEN DocPanic(start)
         ELSE DocTok("EndOfFile", <<>>, Len(doc), start)
    ELSE IF is_whitespace(c)
    THEN DocTok("Whitespace", Slice(doc, start, start + 1), start, start + 1)
    ELSE IF c = "<"
    THEN TagBranch(doc, start, ScanTag(doc, start + 1))
    ELSE DocScan

\* XMLLexer::next_token with the cursor at start, up to the text-run loop
XMLLexer_next_token(doc, start) ==
    XMLLexer_branch(doc, start, XMLLexer_current(doc, start))

\* the condition of the text-run loop: while !current().is_whitespace() || end()
TextRunCond(doc, pos) ==
    ~is_whitespace(XMLLexer_current(doc, pos)) \/ XMLLexer_end(doc, pos)

\* whether the text-run loop makes another iteration at pos (no break on "<")
TextRunContinues(doc, pos) ==
    TextRunCond(doc, pos) /\ XMLLexer_current(doc, pos) # "<"

RECURSIVE ScanText(_, _)
\* the text-run loop run to its end: the offset of the whitespace or "<" it
\* stops at, or -1 when it reaches the end of the input, which it never leaves
ScanText(doc, pos) ==
    IF XMLLexer_end(doc, pos) THEN -1
    ELSE IF TextRunContinues(doc, pos) THEN ScanText(doc, pos + 1)
    ELSE pos

\* next_token does not return
DocHang == [res |-> "Hang"]

\* the end of the else branch, stop being what ScanText found
TextToken(doc, start, stop) ==
    IF stop < 0 THEN DocHang
    ELSE DocTok("String", Slice(doc, start, stop), start, stop)

\* XMLLexer::next_token as one call, t being what its branches gave
XMLLexer_returned(doc, start, t) ==
    IF t.res = "Scan" THEN TextToken(doc, start, ScanText(doc, start)) ELSE t

----------------------------------------------------------------------------
(* XMLParser::parse as a step function on the state of one call:           *)
(*   pc          where parse is: "first" (before the first token), "loop"  *)
(*               (at the head of the while loop) or "done" (returned or    *)
(*               aborted)                                                  *)
(*   position    the lexer's cursor                                        *)
(*   start       the local start of the last next_token call               *)
(*   lexing      whether next_token is inside its text-run loop            *)
(*   node_stack  the open-node stack, bottom first                         *)
(*   nodes       the nodes created so far                                  *)
(*   result      what parse returned: Ok(root), Err(e), or a panic         *)

\* how far past the end of the input the model follows the cursor
MaxOverrun == 2

Running == [kind |-> "Running"]

Ok(root) == [kind |-> "Ok", root |-> root]

Err(e) == [kind |-> "Err", err |-> e]

Panic == [kind |-> "Panic"]

ParseInit ==
    [pc |-> "first", position |-> 0, start |-> 0, lexing |-> FALSE,
     node_stack |-> <<>>, nodes |-> <<>>, result |-> Running]

\* parse returns (or aborts) with result r
Finish(s, r) == [s EXCEPT !.pc = "done", !.lexing = FALSE, !.result = r]

\* the lexer has produced t (a token, an error or a panic) from offset from
Lexed(s, from, t) == [s EXCEPT !.start = from, !.position = t.cur, !.lexing = FALSE]

InsertionTargetRoot(stack) == stack[1]

\* node_stack.last().unwrap(), the stack being non-empty
InsertionTarget(stack) == stack[Len(stack)]

\* the first token is a tag: the root node is created and pushed
Root_step(s, t) ==
    [Lexed(s, t.position, t) EXCEPT
        !.pc = "loop",
        !.nodes = <<XMLNode_new(XMLTag_from(t.tag))>>,
        !.node_stack = <<1>>]

\* the first token is no tag
RejectFirst_step(s, from, t) == Finish(Lexed(s, from, t), Err(InvalidFirstToken))

LexError_stepSkipping(s, from, t) == Lexed(s, from, t)

\* next_token()? returns the lexer's error
LexError_step(s, from, t) == Finish(Lexed(s, from, t), Err(t.err))

\* next_token panics
LexAbort_step(s, from, t) == Finish(Lexed(s, from, t), Panic)

\* TagKind::Opening
Opening_step(s, t) ==
    LET s1 == Lexed(s, t.position, t)
        new_node == Len(s.nodes) + 1
    IN
    IF s.node_stack = <<>> THEN Finish(s1, Panic)       \* last().unwrap()
    ELSE [s1 EXCEPT
            !.nodes = Append(push_child(s.nodes, InsertionTarget(s.node_stack), new_node),
                             XMLNode_new(XMLTag_from(t.tag))),
            !.node_stack = Append(s.node_stack, new_node)]

UnexpectedClosingTagAtClosing(popped, tag) ==
    UnexpectedClosingTag(popped.tag.name, tag.name, tag.pos)

\* the error of a closing tag that does not match the popped node
UnexpectedClosingTagOf(popped, tag) ==
    UnexpectedClosingTag(popped.tag.name, tag.name, popped.tag.pos)

Closing_stepAtCursor(s, t) ==
    LET s1 == Lexed(s, t.position, t) IN
    IF s.node_stack = <<>>
    THEN Finish(s1, Err(ClosingTagNeverOpened(t.tag.name, t.cur)))
    ELSE LET popped == s.nodes[s.node_stack[Len(s.node_stack)]]
             s2 == [s1 EXCEPT !.node_stack = SubSeq(@, 1, Len(@) - 1)]
         IN
         IF popped.tag.name # t.tag.name
         THEN Finish(s2, Err(UnexpectedClosingTagOf(popped, t.tag)))
         ELSE s2

\* TagKind::Closing
Closing_step(s, t) ==
    LET s1 == Lexed(s, t.position, t) IN
    IF s.node_stack = <<>>
    THEN Finish(s1, Err(ClosingTagNeverOpened(t.tag.name, t.tag.pos)))
    ELSE LET popped == s.nodes[s.node_stack[Len(s.node_stack)]]
             s2 == [s1 EXCEPT !.node_stack = SubSeq(@, 1, Len(@) - 1)]
         IN
         IF popped.tag.name # t.tag.name
         THEN Finish(s2, Err(UnexpectedClosingTagOf(popped, t.tag)))
         ELSE s2

\* TokenKind::Whitespace
Whitespace_step(s, t) == Lexed(s, t.position, t)

\* next_token enters its text-run loop
TextRunBegin_step(s) == [s EXCEPT !.start = s.position, !.lexing = TRUE]

\* one iteration of the text-run loop
TextRunAdvance_step(s) == [s EXCEPT !.position = @ + 1]

\* the text-run loop ends: the String token, and what parse does with it
TextRunEnd_step(doc, s) ==
    LET t == DocTok("String", Slice(doc, s.start, s.position), s.start, s.position)
        s1 == Lexed(s, s.start, t)
    IN
    IF s.pc = "first" THEN Finish(s1, Err(InvalidFirstToken))
    ELSE IF s.node_stack = <<>> THEN Finish(s1, Panic)  \* last().unwrap()
    ELSE [s1 EXCEPT !.nodes = push_content(@, InsertionTarget(s.node_stack), t.text)]

Return_stepInnermost(s) ==
    Finish(s, Ok(IF s.node_stack = <<>> THEN 1 ELSE s.node_stack[Len(s.node_stack)]))

\* while !self.lexer.end() is false: Ok(first_node)
Return_step(s) == Finish(s, Ok(1))

\* which step parse takes next in state s on document doc ("none": parse has
\* ended, or the cursor has run MaxOverrun past the end of the input)
NextStep(doc, s, t) ==
    IF s.pc = "done" THEN "none"
    ELSE IF s.lexing
    THEN IF TextRunContinues(doc, s.position)
         THEN IF s.position < Len(doc) + MaxOverrun THEN "TextRunAdvance" ELSE "none"
         ELSE "TextRunEnd"
    ELSE IF s.pc = "loop" /\ XMLLexer_end(doc, s.position) THEN "Return"
    ELSE IF t.res = "Scan" THEN "TextRunBegin"
    ELSE IF t.res = "Panic" THEN "LexAbort"
    ELSE IF t.res = "Err" THEN "LexError"
    ELSE IF s.pc = "first"
    THEN IF t.kind = "Tag" THEN "Root" ELSE "RejectFirst"
    ELSE IF t.kind = "Whitespace" THEN "Whitespace"
    ELSE IF t.tag.kind = "Opening" THEN "Opening"
    ELSE "Closing"

\* the state after step a
Step(doc, s, t, a) ==
    CASE a = "Root" -> Root_step(s, t)
      [] a = "RejectFirst" -> RejectFirst_step(s, s.position, t)
      [] a = "LexError" -> LexError_step(s, s.position, t)
      [] a = "LexAbort" -> LexAbort_step(s, s.position, t)
      [] a = "Opening" -> Opening_step(s, t)
      [] a = "Closing" -> Closing_step(s, t)
      [] a = "Whitespace" -> Whitespace_step(s, t)
      [] a = "TextRunBegin" -> TextRunBegin_step(s)
      [] a = "TextRunAdvance" -> TextRunAdvance_step(s)
      [] a = "TextRunEnd" -> TextRunEnd_step(doc, s)
      [] a = "Return" -> Return_step(s)

\* what next_token returns in state s when parse calls it there (a String
\* token comes out of the text-run loop, not out of here)
Token(doc, s) ==
    IF s.pc = "done" \/ s.lexing THEN DocScan ELSE XMLLexer_next_token(doc, s.position)

RECURSIVE RunNext(_, _)
\* parse run from state s with step a next, until it ends (or the cursor is
\* MaxOverrun past the end)
RunFrom(doc, s, a) ==
    IF a = "none" THEN s
    ELSE RunNext(doc, Step(doc, s, Token(doc, s), a))

RunNext(doc, s) == RunFrom(doc, s, NextStep(doc, s, Token(doc, s)))

\* XMLParser::new(doc).parse()
XMLParser_parse(doc) == RunNext(doc, ParseInit)

----------------------------------------------------------------------------
(* Inputs.  A document is drawn as a sequence of pieces and handed to the    *)
(* parser as the characters they render to.                                  *)

\* the longest arbitrary sequence of pieces
MaxPieces == 4

\* the longest properly nested document, in pieces
MaxNestPieces == 8

Names == {"a", "b"}

OpenP(n) == [k |-> "open", text |-> <<"<", n, ">">>, name |-> n]

CloseP(n) == [k |-> "close", text |-> <<"<", "/", n, ">">>, name |-> n]

TextP == [k |-> "text", text |-> <<"x">>, name |-> ""]

SpaceP == [k |-> "space", text |-> <<" ">>, name |-> ""]

RawP(t) == [k |-> "raw", text |-> t, name |-> ""]

\* "<a" (no ">"), "<>" and "</>" (no name), "<=>" (a tag starting with "=")
RawPieces ==
    {RawP(<<"<", "a">>), RawP(<<"<", ">">>), RawP(<<"<", "/", ">">>),
     RawP(<<"<", "=", ">">>)}

Leaves == {TextP, SpaceP}

Pieces == {OpenP(n) : n \in Names} \cup {CloseP(n) : n \in Names} \cup Leaves \cup RawPieces

SeqsUpTo(S, n) == UNION {[1..m -> S] : m \in 0..n}

RECURSIVE NestedContent(_)
\* the properly nested piece sequences of at most k pieces
NestedContent(k) ==
    IF k <= 0 THEN {<<>>}
    ELSE {<<>>}
         \cup {<<l>> \o r : l \in Leaves, r \in NestedContent(k - 1)}
         \cup (IF k < 2 THEN {}
               ELSE UNION {{<<OpenP(n[1])>> \o i \o <<CloseP(n[1])>> \o r :
                               i \in NestedContent(n[2]),
                               r \in NestedContent(k - 2 - n[2])} :
                           n \in Names \X (0..(k - 2))})

\* one root element, properly nested
NestedDocs ==
    {<<OpenP(n)>> \o c \o <<CloseP(n)>> : n \in Names, c \in NestedContent(MaxNestPieces - 2)}

Render(ps) == Concat([i \in 1..Len(ps) |-> ps[i].text])

\* the longest document drawn for its text, in pieces
MaxTextPieces == 5

TextW == [k |-> "text", text |-> <<"w">>, name |-> ""]

\* tags of one name, two different text runs, whitespace, and "<a" (no ">")
TextPieces == {OpenP("a"), CloseP("a"), TextP, TextW, SpaceP, RawP(<<"<", "a">>)}

TextDocs == SeqsUpTo(TextPieces, MaxTextPieces)

\* the most attributes of a drawn tag
MaxAttrs == 2

\* the longest arbitrary tag text, in pieces
MaxTagPieces == 4

Quotes == {"'", "\""}

Keys == {<<"k">>, <<"j", "5">>}

Values == {<<>>, <<"v">>, <<"=", " ">>, <<"'">>, <<"\"">>}

\* key=Qvalue Q, the value not containing the quote Q
Attrs ==
    {a \in [key : Keys, value : Values, quote : Quotes] :
        \A i \in 1..Len(a.value) : a.value[i] # a.quote}

RenderAttr(a) == <<" ">> \o a.key \o <<"=", a.quote>> \o a.value \o <<a.quote>>

\* <name k1=Q1 v1 Q1 ... kn=Qn vn Qn>
RenderAttrTag(name, attrs) ==
    <<"<">> \o name \o Concat([i \in 1..Len(attrs) |-> RenderAttr(attrs[i])]) \o <<">">>

AttrTags ==
    {[form |-> "attrs", name |-> n, attrs |-> as, text |-> RenderAttrTag(n, as)] :
        n \in {<<"b", "5">>}, as \in SeqsUpTo(Attrs, MaxAttrs)}

\* what follows the attributes of a malformed tag: ='w' (a second Equals
\* chained onto what precedes), 'k' = 'v' (a literal as key), k = v (an
\* identifier as value), k= (no value)
Suffixes ==
    {<<"=", "'", "w", "'">>,
     <<" ", "'", "k", "'", " ", "=", " ", "'", "v", "'">>,
     <<" ", "k", " ", "=", " ", "v">>,
     <<" ", "k", "=">>}

\* <name k1=Q1 v1 Q1 suffix>, with one attribute or none before the suffix
MalformedTags ==
    {[form |-> "malformed", name |-> n, attrs |-> as,
      text |-> <<"<">> \o n \o Concat([i \in 1..Len(as) |-> RenderAttr(as[i])])
                   \o x \o <<">">>] :
        n \in {<<"a">>}, as \in SeqsUpTo(Attrs, 1), x \in Suffixes}

\* the most whitespace characters inserted at one place of a tag
MaxPad == 2

\* n whitespace characters
Pad(n) == [i \in 1..n |-> IF i % 2 = 1 THEN " " ELSE "\n"]

\* an opening tag with whitespace after "<", before the key, around "=" and
\* before ">", as many characters as pads says
RenderPaddedOpening(name, attrs, pads) ==
    <<"<">> \o Pad(pads[1]) \o name
        \o Concat([i \in 1..Len(attrs) |->
                       <<" ">> \o Pad(pads[2]) \o attrs[i].key \o Pad(pads[3]) \o <<"=">>
                           \o Pad(pads[4])
                           \o <<attrs[i].quote>> \o attrs[i].value \o <<attrs[i].quote>>])
        \o Pad(pads[5]) \o <<">">>

\* a closing tag with whitespace after "<", after "/" and before ">"
RenderPaddedClosing(name, pads) ==
    <<"<">> \o Pad(pads[1]) \o <<"/">> \o Pad(pads[2]) \o name \o Pad(pads[5]) \o <<">">>

NoPads == [i \in 1..5 |-> 0]

\* the attributes of the padded tags: one key, a value with "=" and
\* whitespace inside or without
PaddedAttrs == {a \in Attrs : a.key = <<"k">> /\ a.value \in {<<"v">>, <<"=", " ">>}}

\* opening tags with one attribute or none, and closing tags, each with
\* whitespace inserted between its tokens and, as bare, without it
PaddedTags ==
    {[form |-> "padded", name |-> n, attrs |-> w[1],
      text |-> RenderPaddedOpening(n, w[1], w[2]),
      bare |-> RenderPaddedOpening(n, w[1], NoPads), pads |-> w[2]] :
        n \in {<<"a">>},
        w \in {v \in SeqsUpTo(PaddedAttrs, 1) \X [1..5 -> 0..MaxPad] :
                  v[1] = <<>> => v[2][2] + v[2][3] + v[2][4] = 0}}
    \cup
    {[form |-> "padded", name |-> n, attrs |-> <<>>,
      text |-> RenderPaddedClosing(n, pads),
      bare |-> RenderPaddedClosing(n, NoPads), pads |-> pads] :
        n \in {<<"a">>},
        pads \in {q \in [1..5 -> 0..MaxPad] : q[3] + q[4] = 0}}

TagPieces ==
    {<<"a">>, <<" ">>, <<"=">>, <<"/">>, <<"'", "v", "'">>, <<"\"">>, <<"5">>}

\* arbitrary tag text, with the brackets or without
RawTags ==
    {[form |-> "raw", name |-> <<>>, attrs |-> <<>>,
      text |-> IF w[2] THEN <<"<">> \o Concat(w[1]) \o <<">">> ELSE Concat(w[1])] :
        w \in SeqsUpTo(TagPieces, MaxTagPieces) \X BOOLEAN}

\* opening tags named a with tokens that are next to no "=": bare
\* identifiers, a stray literal, an Unknown token, a "/" after the name
StrayTexts ==
    {<<"<", "a", " ", "b", " ", "c", ">">>,
     <<"<", "a", "/", ">">>,
     <<"<", "a", " ", "/", ">">>,
     <<"<", "a", " ", "'", "v", "'", " ", "b", ">">>,
     <<"<", "a", " ", "5", "b", " ", "\"", "\"", "/", ">">>}

StrayTags ==
    {[form |-> "stray", name |-> <<"a">>, attrs |-> <<>>, text |-> t] : t \in StrayTexts}

\* the longest document drawn for the forms of its tags, in pieces
MaxFormPieces == 4

SelfClosingP == RawP(<<"<", "a", "/", ">">>)

BareP == RawP(<<"<", "a", " ", "b", " ", "c", ">">>)

QuotedCloserP == RawP(<<"<", "a", " ", "b", "=", "'", ">", "'", ">">>)

UnclosedP == RawP(<<"<", "a">>)

\* <a/>, <a b c>, <a b='>'>, "<a" (no ">"), </a>, text and whitespace
FormPieces == {SelfClosingP, BareP, QuotedCloserP, UnclosedP, CloseP("a"), TextP, SpaceP}

FormDocs == SeqsUpTo(FormPieces, MaxFormPieces)

\* tags with a ">" inside a quoted value
QuotedTags ==
    {[form |-> "quoted", name |-> <<"a">>, attrs |-> <<>>,
      text |-> <<"<", "a", " ", "b", "=", q, ">", q, ">">>] : q \in Quotes}

NoTag == [form |-> "none", name |-> <<>>, attrs |-> <<>>, text |-> <<>>]

\* the longest input given to two lexer instances, in pieces
MaxLexPieces == 3

\* the inputs two XMLLexer instances are constructed on
LexDocs == {Render(ps) : ps \in SeqsUpTo(Pieces, MaxLexPieces)}

\* the inputs two TagLexer instances are constructed on
LexTags == {Concat(w) : w \in SeqsUpTo(TagPieces, MaxLexPieces)}

\* the longest input given to a TagLexer that is called past its end, in pieces
MaxTilePieces == 3

\* the most calls of next_token made after the one that first returned EndOfLine
MaxEndCalls == 2

\* the inputs of a TagLexer that is called past its end: arbitrary tag text,
\* and two adjacent literals of different text
TileTags ==
    {Concat(w) : w \in SeqsUpTo(TagPieces, MaxTilePieces)}
    \cup {<<"'", "a", "'", "'", "b", "'">>}

----------------------------------------------------------------------------
(* The state *)

VARIABLES
    pieces,         \* the pieces the document was drawn as
    content,        \* XMLLexer.content
    position,       \* XMLLexer.position
    start,          \* next_token's local start
    lexing,         \* next_token is inside its text-run loop
    pc,             \* where XMLParser::parse is
    node_stack,     \* parse's local node_stack
    nodes,          \* the nodes created so far
    result,         \* what parse returned
    tag_src,        \* the way the tag text given to TagParser::new was drawn
    tag_content,    \* TagParser.content
    tag_cursor,     \* TagParser.lexer.position
    tokens,         \* TagParser.tokens
    tag_position,   \* TagParser.position
    tag_pc,         \* where TagParser::parse is
    name,           \* parse's local name
    kind,           \* parse's local kind
    attribs,        \* parse's local attribs
    tag_result,     \* what TagParser::parse returned
    lexer,          \* which lexer the two instances are: "XMLLexer" or "TagLexer"
    lex_content,    \* the input both instances were constructed on
    lex_position,   \* each instance's position
    lex_results,    \* what each instance's next_token calls returned, in order
    lex_done        \* whether each instance is called no more

docVars == <<pieces, content, position, start, lexing, pc, node_stack, nodes, result>>

tagVars ==
    <<tag_src, tag_content, tag_cursor, tokens, tag_position, tag_pc, name, kind, attribs,
      tag_result>>

lexVars == <<lexer, lex_content, lex_position, lex_results, lex_done>>

vars == <<docVars, tagVars, lexVars>>

\* the state of the call as a record
Cur ==
    [pc |-> pc, position |-> position, start |-> start, lexing |-> lexing,
     node_stack |-> node_stack, nodes |-> nodes, result |-> result]

Becomes(s) ==
    /\ pc' = s.pc
    /\ position' = s.position
    /\ start' = s.start
    /\ lexing' = s.lexing
    /\ node_stack' = s.node_stack
    /\ nodes' = s.nodes
    /\ result' = s.result

\* no TagParser of its own is running
TagIdle ==
    /\ tag_src = NoTag
    /\ tag_content = <<>>
    /\ tag_cursor = 0
    /\ tokens = <<>>
    /\ tag_position = 0
    /\ tag_pc = "idle"
    /\ name = <<>>
    /\ kind = "None"
    /\ attribs = <<>>
    /\ tag_result = Running

\* no XMLParser is running
DocIdle ==
    /\ pieces = <<>>
    /\ content = <<>>
    /\ pc = "idle"
    /\ position = 0
    /\ start = 0
    /\ lexing = FALSE
    /\ node_stack = <<>>
    /\ nodes = <<>>
    /\ result = Running

DocInit ==
    /\ pieces \in SeqsUpTo(Pieces, MaxPieces) \cup NestedDocs
    /\ content = Render(pieces)
    /\ pc = ParseInit.pc
    /\ position = ParseInit.position
    /\ start = ParseInit.start
    /\ lexing = ParseInit.lexing
    /\ node_stack = ParseInit.node_stack
    /\ nodes = ParseInit.nodes
    /\ result = ParseInit.result

DocInitText ==
    /\ pieces \in TextDocs
    /\ content = Render(pieces)
    /\ pc = ParseInit.pc
    /\ position = ParseInit.position
    /\ start = ParseInit.start
    /\ lexing = ParseInit.lexing
    /\ node_stack = ParseInit.node_stack
    /\ nodes = ParseInit.nodes
    /\ result = ParseInit.result

DocInitForms ==
    /\ pieces \in FormDocs
    /\ content = Render(pieces)
    /\ pc = ParseInit.pc
    /\ position = ParseInit.position
    /\ start = ParseInit.start
    /\ lexing = ParseInit.lexing
    /\ node_stack = ParseInit.node_stack
    /\ nodes = ParseInit.nodes
    /\ result = ParseInit.result

\* the step parse takes next
Enabled(a) == NextStep(content, Cur, Token(content, Cur)) = a

\* lines 144-153: the first token is a tag
Root ==
    /\ Enabled("Root")
    /\ Becomes(Root_step(Cur, Token(content, Cur)))
    /\ UNCHANGED <<pieces, content, tagVars, lexVars>>

\* lines 144-149: the first token is no tag
RejectFirst ==
    /\ Enabled("RejectFirst")
    /\ Becomes(RejectFirst_step(Cur, position, Token(content, Cur)))
    /\ UNCHANGED <<pieces, content, tagVars, lexVars>>

\* next_token()? fails
LexError ==
    /\ Enabled("LexError")
    /\ Becomes(LexError_step(Cur, position, Token(content, Cur)))
    /\ UNCHANGED <<pieces, content, tagVars, lexVars>>

\* next_token panics
LexAbort ==
    /\ Enabled("LexAbort")
    /\ Becomes(LexAbort_step(Cur, position, Token(content, Cur)))
    /\ UNCHANGED <<pieces, content, tagVars, lexVars>>

\* an opening tag in the loop
Opening ==
    /\ Enabled("Opening")
    /\ Becomes(Opening_step(Cur, Token(content, Cur)))
    /\ UNCHANGED <<pieces, content, tagVars, lexVars>>

\* a closing tag in the loop
Closing ==
    /\ Enabled("Closing")
    /\ Becomes(Closing_step(Cur, Token(content, Cur)))
    /\ UNCHANGED <<pieces, content, tagVars, lexVars>>

\* a Whitespace token in the loop
SkipWhitespace ==
    /\ Enabled("Whitespace")
    /\ Becomes(Whitespace_step(Cur, Token(content, Cur)))
    /\ UNCHANGED <<pieces, content, tagVars, lexVars>>

\* next_token takes its last branch
TextRunBegin ==
    /\ Enabled("TextRunBegin")
    /\ Becomes(TextRunBegin_step(Cur))
    /\ UNCHANGED <<pieces, content, tagVars, lexVars>>

\* one iteration of the text-run loop
TextRunAdvance ==
    /\ Enabled("TextRunAdvance")
    /\ Becomes(TextRunAdvance_step(Cur))
    /\ UNCHANGED <<pieces, content, tagVars, lexVars>>

\* the String token is returned and handled
TextRunEnd ==
    /\ Enabled("TextRunEnd")
    /\ Becomes(TextRunEnd_step(content, Cur))
    /\ UNCHANGED <<pieces, content, tagVars, lexVars>>

\* the loop ends and parse returns Ok(first_node)
Return ==
    /\ Enabled("Return")
    /\ Becomes(Return_step(Cur))
    /\ UNCHANGED <<pieces, content, tagVars, lexVars>>

----------------------------------------------------------------------------
(* TagParser::new(text).parse() step by step *)

TagInit ==
    /\ tag_src \in AttrTags \cup MalformedTags \cup PaddedTags \cup RawTags \cup StrayTags
                   \cup QuotedTags
    /\ tag_content = TagParser_new(tag_src.text)
    /\ tag_cursor = 0
    /\ tokens = <<>>
    /\ tag_position = 0
    /\ tag_pc = "tokenize"
    /\ name = <<>>
    /\ kind = "None"
    /\ attribs = <<>>
    /\ tag_result = Running

\* what the lexer returns to tokenize
LexerToken == TagLexer_next_token(tag_content, tag_cursor)

\* TagParser::parse returns (or aborts) with r
TagFinish(r) ==
    /\ tag_pc' = "done"
    /\ tag_result' = r

\* tokenize: next_token returns a token, which is pushed unless it is Whitespace
TagLexToken ==
    /\ tag_pc = "tokenize"
    /\ LexerToken.res = "Ok"
    /\ LexerToken.kind # "EndOfLine"
    /\ tokens' = TokenizeStep(tokens, LexerToken)
    /\ tag_cursor' = LexerToken.cur
    /\ UNCHANGED <<tag_src, tag_content, tag_position, tag_pc, name, kind, attribs, tag_result>>
    /\ UNCHANGED <<docVars, lexVars>>

\* tokenize: next_token returns EndOfLine and the loop breaks
TagLexEnd ==
    /\ tag_pc = "tokenize"
    /\ LexerToken.res = "Ok"
    /\ LexerToken.kind = "EndOfLine"
    /\ tag_pc' = "first"
    /\ UNCHANGED <<tag_src, tag_content, tag_cursor, tokens, tag_position, name, kind, attribs,
                   tag_result>>
    /\ UNCHANGED <<docVars, lexVars>>

\* tokenize: next_token()? fails
TagLexFail ==
    /\ tag_pc = "tokenize"
    /\ LexerToken.res = "Err"
    /\ TagFinish(Err(LexerToken.err))
    /\ UNCHANGED <<tag_src, tag_content, tag_cursor, tokens, tag_position, name, kind, attribs>>
    /\ UNCHANGED <<docVars, lexVars>>

\* tokenize: next_token panics
TagLexAbort ==
    /\ tag_pc = "tokenize"
    /\ LexerToken.res = "Panic"
    /\ TagFinish(Panic)
    /\ UNCHANGED <<tag_src, tag_content, tag_cursor, tokens, tag_position, name, kind, attribs>>
    /\ UNCHANGED <<docVars, lexVars>>

\* the head of parse finds the name and the kind
TagFirst ==
    /\ tag_pc = "first"
    /\ TagParser_first(tokens).res = "Ok"
    /\ name' = TagParser_first(tokens).name
    /\ kind' = TagParser_first(tokens).kind
    /\ tag_position' = TagParser_first(tokens).position
    /\ tag_pc' = "attributes"
    /\ UNCHANGED <<tag_src, tag_content, tag_cursor, tokens, attribs, tag_result>>
    /\ UNCHANGED <<docVars, lexVars>>

\* the head of parse fails with InvalidFirstToken
TagFirstFail ==
    /\ tag_pc = "first"
    /\ TagParser_first(tokens).res = "Err"
    /\ TagFinish(Err(TagParser_first(tokens).err))
    /\ tag_position' = IF tokens[1].kind = "ForwardSlash" THEN 1 ELSE 0
    /\ UNCHANGED <<tag_src, tag_content, tag_cursor, tokens, name, kind, attribs>>
    /\ UNCHANGED <<docVars, lexVars>>

\* the head of parse panics in cur_token
TagFirstAbort ==
    /\ tag_pc = "first"
    /\ TagParser_first(tokens).res = "Panic"
    /\ TagFinish(Panic)
    /\ tag_position' = Len(tokens)
    /\ UNCHANGED <<tag_src, tag_content, tag_cursor, tokens, name, kind, attribs>>
    /\ UNCHANGED <<docVars, lexVars>>

\* one iteration of the attribute loop
TagAttribute ==
    /\ tag_pc = "attributes"
    /\ tag_position < Len(tokens)
    /\ TagParser_step(tokens, tag_position, attribs).res = "Ok"
    /\ attribs' = TagParser_step(tokens, tag_position, attribs).attribs
    /\ tag_position' = tag_position + 1
    /\ UNCHANGED <<tag_src, tag_content, tag_cursor, tokens, tag_pc, name, kind, tag_result>>
    /\ UNCHANGED <<docVars, lexVars>>

\* an iteration of the attribute loop fails
TagAttributeFail ==
    /\ tag_pc = "attributes"
    /\ tag_position < Len(tokens)
    /\ TagParser_step(tokens, tag_position, attribs).res = "Err"
    /\ TagFinish(Err(TagParser_step(tokens, tag_position, attribs).err))
    /\ UNCHANGED <<tag_src, tag_content, tag_cursor, tokens, tag_position, name, kind, attribs>>
    /\ UNCHANGED <<docVars, lexVars>>

\* the attribute loop ends: Ok(XMLTag::new(name, attribs, kind))
TagReturn ==
    /\ tag_pc = "attributes"
    /\ tag_position >= Len(tokens)
    /\ TagFinish(Ok(BaseXMLTag(name, attribs, kind, 0)))
    /\ UNCHANGED <<tag_src, tag_content, tag_cursor, tokens, tag_position, name, kind, attribs>>
    /\ UNCHANGED <<docVars, lexVars>>

----------------------------------------------------------------------------
(* Two lexer instances constructed on the same input, their next_token     *)
(* calls interleaved in any order                                           *)

Instances == {1, 2}

\* no lexer instance of its own is running
LexIdle ==
    /\ lexer = "None"
    /\ lex_content = <<>>
    /\ lex_position = [i \in Instances |-> 0]
    /\ lex_results = [i \in Instances |-> <<>>]
    /\ lex_done = [i \in Instances |-> TRUE]

\* XMLLexer::new(content) twice, or TagLexer::new(content) twice
LexInit ==
    /\ \/ lexer = "XMLLexer" /\ lex_content \in LexDocs
       \/ lexer = "TagLexer" /\ lex_content \in LexTags
    /\ lex_position = [i \in Instances |-> 0]
    /\ lex_results = [i \in Instances |-> <<>>]
    /\ lex_done = [i \in Instances |-> FALSE]

CursorOfFirst(positions, self) == positions[1]

\* self.cur(): the position field of the instance itself
Cursor(positions, self) == positions[self]

\* what the caller gets of t: the token, the error, a panic, or nothing
Returned(t) == [f \in DOMAIN t \ {"cur"} |-> t[f]]

\* after t the instance is called no more: the end token, an error, a panic,
\* or a call that does not return
Last(t) == t.res # "Ok" \/ t.kind \in {"EndOfFile", "EndOfLine"}

\* a call of next_token on instance self returned t (or did not return)
Called(self, t) ==
    /\ lex_results' = [lex_results EXCEPT ![self] = Append(@, Returned(t))]
    /\ lex_position' = [lex_position EXCEPT ![self] = IF t.res = "Ok" THEN t.cur ELSE @]
    /\ lex_done' = [lex_done EXCEPT ![self] = Last(t)]

\* XMLLexer::next_token on one of the instances
XMLLexerCall(self) ==
    /\ lexer = "XMLLexer"
    /\ ~lex_done[self]
    /\ Called(self, XMLLexer_returned(lex_content, Cursor(lex_position, self),
                    XMLLexer_next_token(lex_content, Cursor(lex_position, self))))
    /\ UNCHANGED <<lexer, lex_content, docVars, tagVars>>

\* TagLexer::next_token on one of the instances
TagLexerCall(self) ==
    /\ lexer = "TagLexer"
    /\ ~lex_done[self]
    /\ Called(self, TagLexer_next_token(lex_content, Cursor(lex_position, self)))
    /\ UNCHANGED <<lexer, lex_content, docVars, tagVars>>

\* TagLexer::new(content) twice, for calls past the end
LexInitTile ==
    /\ lexer = "TagLexer"
    /\ lex_content \in TileTags
    /\ lex_position = [i \in Instances |-> 0]
    /\ lex_results = [i \in Instances |-> <<>>]
    /\ lex_done = [i \in Instances |-> FALSE]

\* the EndOfLine results instance self has returned
EndCalls(self) ==
    {k \in 1..Len(lex_results[self]) :
        lex_results[self][k].res = "Ok" /\ lex_results[self][k].kind = "EndOfLine"}

\* TagLexer::next_token on an instance that has returned EndOfLine before
TagLexerEndCall(self) ==
    /\ lexer = "TagLexer"
    /\ lex_done[self]
    /\ Cardinality(EndCalls(self)) \in 1..MaxEndCalls
    /\ Called(self, TagLexer_next_token(lex_content, Cursor(lex_position, self)))
    /\ UNCHANGED <<lexer, lex_content, docVars, tagVars>>

----------------------------------------------------------------------------
(* The specifications *)

\* the same input is lexed by two instances
InitLex == LexInit /\ DocIdle /\ TagIdle

NextLex ==
    \/ \E self \in Instances : XMLLexerCall(self)
    \/ \E self \in Instances : TagLexerCall(self)

SpecLex == InitLex /\ [][NextLex]_vars

\* two TagLexer instances are called to the end of their input and past it
InitTile == LexInitTile /\ DocIdle /\ TagIdle

NextTile ==
    \/ \E self \in Instances : TagLexerCall(self)
    \/ \E self \in Instances : TagLexerEndCall(self)

SpecTile == InitTile /\ [][NextTile]_vars

\* a document is parsed
Init == DocInit /\ TagIdle /\ LexIdle

Next ==
    \/ Root
    \/ RejectFirst
    \/ LexError
    \/ LexAbort
    \/ Opening
    \/ Closing
    \/ SkipWhitespace
    \/ TextRunBegin
    \/ TextRunAdvance
    \/ TextRunEnd
    \/ Return

Spec == Init /\ [][Next]_vars

\* a document drawn for its text is parsed
InitText == DocInitText /\ TagIdle /\ LexIdle

SpecText == InitText /\ [][Next]_vars

\* a document drawn for the forms of its tags is parsed
InitForms == DocInitForms /\ TagIdle /\ LexIdle

SpecForms == InitForms /\ [][Next]_vars

\* one tag is parsed
InitTag == TagInit /\ DocIdle /\ LexIdle

NextTag ==
    \/ TagLexToken
    \/ TagLexEnd
    \/ TagLexFail
    \/ TagLexAbort
    \/ TagFirst
    \/ TagFirstFail
    \/ TagFirstAbort
    \/ TagAttribute
    \/ TagAttributeFail
    \/ TagReturn

SpecTag == InitTag /\ [][NextTag]_vars

----------------------------------------------------------------------------
(* What the drawn pieces say about the document, read off the pieces alone *)

\* the offset in the document at which piece i begins
PieceStart(ps, i) == Len(Render(SubSeq(ps, 1, i - 1)))

Opens(ps) == {i \in 1..Len(ps) : ps[i].k = "open"}

Closes(ps) == {i \in 1..Len(ps) : ps[i].k = "close"}

\* the nesting depth after piece i
Depth(ps, i) ==
    Cardinality({j \in Opens(ps) : j <= i}) - Cardinality({j \in Closes(ps) : j <= i})

Largest(S) == CHOOSE x \in S : \A y \in S : y <= x

\* the opening tag that closing tag c closes
Opener(ps, c) == Largest({j \in Opens(ps) : j < c /\ Depth(ps, j) = Depth(ps, c) + 1})

\* the opening tag directly around opening tag i (0 for the root)
Parent(ps, i) ==
    IF Depth(ps, i) = 1 THEN 0
    ELSE Largest({j \in Opens(ps) : j < i /\ Depth(ps, j) = Depth(ps, i) - 1})

\* one root element that begins the document, every opening tag closed by a
\* closing tag of the same name in properly nested order
WellNested(ps) ==
    /\ Len(ps) >= 2
    /\ \A i \in 1..Len(ps) : ps[i].k \in {"open", "close", "text", "space"}
    /\ ps[1].k = "open"
    /\ \A i \in 1..(Len(ps) - 1) : Depth(ps, i) >= 1
    /\ Depth(ps, Len(ps)) = 0
    /\ \A c \in Closes(ps) : ps[Opener(ps, c)].name = ps[c].name

\* opening tag i is the n-th opening tag
Ordinal(ps, i) == Cardinality({j \in Opens(ps) : j <= i})

\* s is strictly increasing
Increasing(s) == \A i \in 1..(Len(s) - 1) : s[i] < s[i + 1]

Range(s) == {s[i] : i \in 1..Len(s)}

RECURSIVE Preorder(_, _)
\* the depth-first pre-order walk of the tree under node n
Preorder(ns, n) ==
    <<n>> \o Concat([i \in 1..Len(ns[n].children) |-> Preorder(ns, ns[n].children[i])])

\* every piece is a whole tag, a text run or whitespace
Plain(ps) == \A i \in 1..Len(ps) : ps[i].k # "raw"

\* the pieces that create a node: the opening tags, and a tag that comes first
Creators(ps) == Opens(ps) \cup {i \in Closes(ps) : i = 1}

\* the offset at which the tag of the n-th node created begins, in a plain
\* document
NodeOffset(ps, n) ==
    PieceStart(ps, CHOOSE i \in Creators(ps) : Cardinality({j \in Creators(ps) : j <= i}) = n)

RECURSIVE IdentFrom(_, _)
\* the identifier that begins at character i of doc
IdentFrom(doc, i) ==
    IF i <= Len(doc) /\ (is_alphanumeric(doc[i]) \/ doc[i] = "_")
    THEN <<doc[i]>> \o IdentFrom(doc, i + 1)
    ELSE <<>>

\* the name of the tag whose "<" is at offset off
NameAt(doc, off) ==
    IF doc[off + 2] = "/" THEN IdentFrom(doc, off + 3) ELSE IdentFrom(doc, off + 2)

\* the first piece that is not whitespace (0 when there is none)
FirstNonSpace(ps) ==
    IF \A i \in 1..Len(ps) : ps[i].k = "space" THEN 0
    ELSE CHOOSE i \in 1..Len(ps) :
            ps[i].k # "space" /\ \A j \in 1..(i - 1) : ps[j].k = "space"

RECURSIVE SkipSpace(_)
\* doc without its leading whitespace
SkipSpace(doc) ==
    IF doc # <<>> /\ is_whitespace(Head(doc)) THEN SkipSpace(Tail(doc)) ELSE doc

\* a tree without the offsets of its tags
Shape(ns) ==
    [n \in 1..Len(ns) |->
        [name |-> ns[n].tag.name, attributes |-> ns[n].tag.attributes,
         content |-> ns[n].content, children |-> ns[n].children]]

\* what a run that ended in state s gave: the tree, the kind of error, a
\* panic, or no end
Outcome(s) ==
    IF s.pc # "done" THEN [kind |-> "Diverges"]
    ELSE IF s.result.kind = "Ok" THEN [kind |-> "Ok", tree |-> Shape(s.nodes)]
    ELSE IF s.result.kind = "Err" THEN [kind |-> "Err", err |-> s.result.err.kind]
    ELSE [kind |-> "Panic"]

Done == pc = "done"

Failed(k) == Done /\ result.kind = "Err" /\ result.err.kind = k

----------------------------------------------------------------------------
(* The claims *)

\* C1: a document that is one root element, every opening tag closed by a
\* closing tag of the same name in properly nested order, parses to Ok(root);
\* there is one node per opening tag, named after it; the children of a node
\* are the elements opened directly inside it, in document order; and the
\* pre-order walk from the root lists the opening tags in source order.
C1_NestingMirrored ==
    (Done /\ WellNested(pieces)) =>
        /\ result = Ok(1)
        /\ Len(nodes) = Cardinality(Opens(pieces))
        /\ \A i \in Opens(pieces) :
              /\ nodes[Ordinal(pieces, i)].tag.name = <<pieces[i].name>>
              /\ Increasing(nodes[Ordinal(pieces, i)].children)
              /\ Range(nodes[Ordinal(pieces, i)].children)
                    = {Ordinal(pieces, j) : j \in {j \in Opens(pieces) : Parent(pieces, j) = i}}
        /\ Preorder(nodes, 1) = [n \in 1..Len(nodes) |-> n]

\* a root with two children of different names, one of them with a child
C1_Witness ==
    /\ Done
    /\ WellNested(pieces)
    /\ result = Ok(1)
    /\ Len(nodes[1].children) = 2
    /\ nodes[nodes[1].children[1]].tag.name # nodes[nodes[1].children[2]].tag.name
    /\ \E n \in 2..Len(nodes) : nodes[n].children # <<>>

\* C2: parsing ends after a number of lexer steps bounded by the length of
\* the input: every step moves the cursor forward by one, so the cursor never
\* passes the end of the input.
C2_CursorWithinInput == position <= Len(content)

\* C3: parse ends with Ok or with an Err value; it never aborts.
C3_NoAbort == result.kind # "Panic"

\* C4: a closing tag that pops a node of another name fails with
\* UnexpectedClosingTag: expected is the popped node's name, obtained the
\* closing tag's name, position the offset at which the popped node's tag began.
C4_UnexpectedClosingTag ==
    [][(/\ Enabled("Closing")
        /\ node_stack # <<>>
        /\ nodes[node_stack[Len(node_stack)]].tag.name # NameAt(content, position))
       => /\ pc' = "done"
          /\ result'.kind = "Err"
          /\ result'.err.kind = "UnexpectedClosingTag"
          /\ result'.err.expected = nodes[node_stack[Len(node_stack)]].tag.name
          /\ result'.err.obtained = NameAt(content, position)
          /\ result'.err.position < position
          /\ content[result'.err.position + 1] = "<"
          /\ NameAt(content, result'.err.position) = result'.err.expected
          /\ Plain(pieces) =>
                result'.err.position = NodeOffset(pieces, node_stack[Len(node_stack)])]_vars

\* the popped node is not the root, so its offset is not 0
C4_Witness == Failed("UnexpectedClosingTag") /\ result.err.position > 0

\* C5: a document whose first tag is a closing tag fails with
\* ClosingTagNeverOpened, obtained being that tag's name.
C5_FirstClosingNeverOpened ==
    (Done /\ Len(pieces) >= 1 /\ pieces[1].k = "close") =>
        /\ Failed("ClosingTagNeverOpened")
        /\ result.err.obtained = <<pieces[1].name>>

\* C6: when the first token that is not whitespace is a closing tag or a text
\* run, parse fails with InvalidFirstToken and creates no node.
C6_RootMustBeOpening ==
    (Done /\ FirstNonSpace(pieces) # 0
          /\ pieces[FirstNonSpace(pieces)].k \in {"close", "text"}) =>
        /\ Failed("InvalidFirstToken")
        /\ nodes = <<>>

\* what parsing doc without its leading whitespace gives
OutcomeUnpadded(doc) == Outcome(XMLParser_parse(SkipSpace(doc)))

\* C7: whitespace before a document does not change the outcome of parsing
\* it: where parsing the document returns a tree or an error, parsing it with
\* whitespace in front returns the same tree or the same kind of error.
C7_LeadingWhitespaceSkipped ==
    (Done /\ OutcomeUnpadded(content).kind \in {"Ok", "Err"}) =>
        Outcome(Cur) = OutcomeUnpadded(content)

\* C8: the empty document fails with NoTokensToParse.
C8_EmptyDocument ==
    (Done /\ content = <<>>) => Failed("NoTokensToParse")

\* C9: when the lexer is called with the cursor on a "<" that no ">" follows,
\* the call fails with UnterminatedAngularBracket carrying the offset of that "<".
C9_UnterminatedAngularBracket ==
    [][(/\ pc \in {"first", "loop"}
        /\ ~lexing
        /\ position < Len(content)
        /\ content[position + 1] = "<"
        /\ \A i \in (position + 1)..Len(content) : content[i] # ">")
       => /\ pc' = "done"
          /\ result' = Err(UnterminatedAngularBracket(position))]_vars

\* tokens were produced before the "<"
C9_Witness ==
    /\ Failed("UnterminatedAngularBracket")
    /\ result.err.loc > 0
    /\ nodes # <<>>

\* the attributes a tag drawn with attrs must have: each key with the value
\* of its last pair
ExpectedAttribs(attrs) ==
    [k \in {attrs[i].key : i \in 1..Len(attrs)} |->
        attrs[Largest({i \in 1..Len(attrs) : attrs[i].key = k})].value]

\* C10: a tag <name k1=Q1 v1 Q1 ... kn=Qn vn Qn>, each Qi either quote and vi
\* without Qi, parses to an Opening descriptor of that name whose attributes
\* are exactly the ki with the vi, quotes stripped, whatever the quote styles.
C10_AttributesParsed ==
    (tag_pc = "done" /\ tag_src.form = "attrs") =>
        /\ tag_result.kind = "Ok"
        /\ tag_result.root.kind = "Opening"
        /\ tag_result.root.name = tag_src.name
        /\ DOMAIN tag_result.root.attribs = DOMAIN ExpectedAttribs(tag_src.attrs)
        /\ \A k \in DOMAIN tag_result.root.attribs :
              tag_result.root.attribs[k] = ExpectedAttribs(tag_src.attrs)[k]

\* two attributes of different keys in different quote styles, one value holding
\* the other quote character
C10_Witness ==
    /\ tag_pc = "done"
    /\ tag_src.form = "attrs"
    /\ tag_result.kind = "Ok"
    /\ Len(tag_src.attrs) = 2
    /\ tag_src.attrs[1].key # tag_src.attrs[2].key
    /\ tag_src.attrs[1].quote # tag_src.attrs[2].quote
    /\ tag_src.attrs[1].value = <<tag_src.attrs[2].quote>>

\* C11: when a key appears in several key=value pairs of one tag, the
\* descriptor's attribute map holds it once, with the value of the last of
\* those pairs: a pair whose key no later pair repeats gives the key its value,
\* and the map has as many keys as the pairs have different keys.
C11_LastPairWins ==
    (tag_pc = "done" /\ tag_src.form = "attrs" /\ tag_result.kind = "Ok") =>
        /\ \A i \in 1..Len(tag_src.attrs) :
              (\A j \in (i + 1)..Len(tag_src.attrs) :
                    tag_src.attrs[j].key # tag_src.attrs[i].key)
              => /\ tag_src.attrs[i].key \in DOMAIN tag_result.root.attribs
                 /\ tag_result.root.attribs[tag_src.attrs[i].key] = tag_src.attrs[i].value
        /\ Cardinality(DOMAIN tag_result.root.attribs)
              = Cardinality({tag_src.attrs[i].key : i \in 1..Len(tag_src.attrs)})

\* one key in two pairs of different values
C11_Witness ==
    /\ tag_pc = "done"
    /\ tag_src.form = "attrs"
    /\ tag_result.kind = "Ok"
    /\ Len(tag_src.attrs) = 2
    /\ tag_src.attrs[1].key = tag_src.attrs[2].key
    /\ tag_src.attrs[1].value # tag_src.attrs[2].value
    /\ tag_result.root.attribs[tag_src.attrs[1].key] = tag_src.attrs[2].value

\* the attribute loop is at an Equals token
AtEquals ==
    /\ tag_pc = "attributes"
    /\ tag_position < Len(tokens)
    /\ tokens[tag_position + 1].kind = "Equals"

\* TagParser::parse fails now with NoTokenAtLocation
FailsNoToken(expected_kind, direction) ==
    /\ tag_pc' = "done"
    /\ tag_result' = Err(NoTokenAtLocation(expected_kind, direction, "Equals"))

\* C12 as stated: when the attribute loop reaches an Equals token that is the
\* last token of the buffer, parse fails with NoTokenAtLocation naming
\* StringLiteral expected on the right of Equals.
C12_EqualsLast ==
    [][(AtEquals /\ tag_position = Len(tokens) - 1)
       => FailsNoToken("StringLiteral", "right")]_vars

\* C12, amended: when the attribute loop reaches an Equals token that is the
\* last token of the buffer and is not at buffer index 1, parse fails with
\* NoTokenAtLocation naming StringLiteral expected on the right of Equals.
C12_EqualsLastWithLeft ==
    [][(AtEquals /\ tag_position = Len(tokens) - 1 /\ tag_position >= 2)
       => FailsNoToken("StringLiteral", "right")]_vars

\* an Equals with a key on its left and nothing on its right
C12_Witness ==
    /\ tag_pc = "done"
    /\ tag_result = Err(NoTokenAtLocation("StringLiteral", "right", "Equals"))
    /\ tag_position = Len(tokens) - 1
    /\ tokens[tag_position].kind = "String"

\* C13: when the attribute loop reaches an Equals token at buffer index 1 or
\* 0 (its left neighbour would be at index 0 or before the buffer), parse fails
\* with NoTokenAtLocation naming String expected on the left of Equals,
\* whatever is on the right of the Equals: a literal, or nothing.
C13_EqualsLeftMissing ==
    [][(AtEquals /\ tag_position <= 1) => FailsNoToken("String", "left")]_vars

\* <name = 'literal'>: the Equals directly after the name of an opening tag,
\* with a literal on its right
C13_Witness ==
    /\ tag_pc = "done"
    /\ tag_result = Err(NoTokenAtLocation("String", "left", "Equals"))
    /\ kind = "Opening"
    /\ tag_position = 1
    /\ Len(tokens) = 3
    /\ tokens[1].kind = "String"
    /\ tokens[3].kind = "StringLiteral"

\* <name=>: neither neighbour is there and the left one is reported
C13_WitnessBothMissing ==
    /\ tag_pc = "done"
    /\ tag_result = Err(NoTokenAtLocation("String", "left", "Equals"))
    /\ tag_position = 1
    /\ Len(tokens) = 2

\* the attribute loop is at an Equals token with a token on either side
\* (the left one not at buffer index 0)
AtEqualsBetween ==
    /\ AtEquals
    /\ tag_position >= 2
    /\ tag_position + 1 < Len(tokens)

\* C14: when the attribute loop reaches an Equals token that has both
\* neighbours and they are not a String on the left and a StringLiteral on the
\* right, parse fails with UnexpectedTagToken and the attributes are left as
\* they were.
C14_UnexpectedTagToken ==
    [][(/\ AtEqualsBetween
        /\ ~(/\ tokens[tag_position].kind = "String"
              /\ tokens[tag_position + 2].kind = "StringLiteral"))
       => /\ tag_pc' = "done"
          /\ tag_result' = Err(UnexpectedTagToken)
          /\ attribs' = attribs]_vars

\* k='v'='w': a first pair was recorded, then a second Equals with the literal
\* on its left fails
C14_Witness ==
    /\ tag_pc = "done"
    /\ tag_result = Err(UnexpectedTagToken)
    /\ DOMAIN attribs # {}
    /\ tokens[tag_position + 1].kind = "Equals"
    /\ tokens[tag_position].kind = "StringLiteral"
    /\ tokens[tag_position + 2].kind = "StringLiteral"

\* k = v: a String on the right of the Equals
C14_WitnessStringOnRight ==
    /\ tag_pc = "done"
    /\ tag_result = Err(UnexpectedTagToken)
    /\ tokens[tag_position].kind = "String"
    /\ tokens[tag_position + 2].kind = "String"

\* 'k' = 'v': a StringLiteral on the left of the first Equals
C14_WitnessLiteralOnLeft ==
    /\ tag_pc = "done"
    /\ tag_result = Err(UnexpectedTagToken)
    /\ attribs = <<>>
    /\ tokens[tag_position].kind = "StringLiteral"
    /\ tokens[tag_position + 2].kind = "StringLiteral"

\* the tag lexer's cursor is on a quote character that does not reappear before
\* the end of its input
AtUnclosedQuote ==
    /\ tag_cursor < Len(tag_content)
    /\ tag_content[tag_cursor + 1] \in Quotes
    /\ \A i \in (tag_cursor + 2)..Len(tag_content) :
          tag_content[i] # tag_content[tag_cursor + 1]

\* the call of next_token fails with UnterminatedStringLiteral at the cursor
FailsUnterminated ==
    /\ tag_pc' = "done"
    /\ tag_result' = Err(UnterminatedStringLiteral(tag_cursor))

\* C15: a call of TagLexer::next_token with the cursor on a quote that does
\* not reappear before the end of the input (another quote character in
\* between does not count) fails with UnterminatedStringLiteral carrying the
\* offset of that quote; every other call returns a token.
C15_OnlyLexerFailure ==
    [][tag_pc = "tokenize" =>
          IF AtUnclosedQuote THEN FailsUnterminated ELSE tag_pc' # "done"]_vars

\* the part of C15 about the error value: a call at an unclosed quote fails
\* with UnterminatedStringLiteral at the quote's offset, and a call returns an
\* error only there
C15_UnterminatedStringLiteral ==
    [][tag_pc = "tokenize" =>
          /\ AtUnclosedQuote => FailsUnterminated
          /\ (tag_pc' = "done" /\ tag_result'.kind = "Err") => AtUnclosedQuote]_vars

\* an unclosed quote after the start of the input, with the other quote
\* character after it
C15_Witness ==
    /\ tag_pc = "done"
    /\ tag_result.kind = "Err"
    /\ tag_result.err.kind = "UnterminatedStringLiteral"
    /\ tag_result.err.loc > 0
    /\ \E i \in (tag_result.err.loc + 2)..Len(tag_content) :
          /\ tag_content[i] \in Quotes
          /\ tag_content[i] # tag_content[tag_result.err.loc + 1]

\* the opening tag of the element that piece t is directly inside (0 when it
\* is inside none)
Encloser(ps, t) ==
    IF {j \in Opens(ps) : j < t /\ Depth(ps, j) = Depth(ps, t)} = {} THEN 0
    ELSE Largest({j \in Opens(ps) : j < t /\ Depth(ps, j) = Depth(ps, t)})

\* the text runs directly inside the element opened by piece i, concatenated
\* in document order
TextInside(ps, i) ==
    Concat([t \in 1..Len(ps) |->
                IF ps[t].k = "text" /\ Encloser(ps, t) = i THEN ps[t].text ELSE <<>>])

\* C16: in a tree parsed successfully from a document of whole tags, text
\* runs and whitespace that begins with an opening tag, the content of every
\* node is the concatenation, in document order, of the text runs directly
\* inside its element, each kept verbatim, the whitespace between them dropped.
C16_ContentIsTextInside ==
    (Done /\ result.kind = "Ok" /\ Plain(pieces) /\ pieces[1].k = "open") =>
        /\ Len(nodes) = Cardinality(Opens(pieces))
        /\ \A i \in Opens(pieces) :
              nodes[Ordinal(pieces, i)].content = TextInside(pieces, i)

\* the root has a child and holds two different runs that whitespace or the
\* child separates
C16_Witness ==
    /\ Done
    /\ result.kind = "Ok"
    /\ Plain(pieces)
    /\ pieces[1].k = "open"
    /\ Len(nodes) = 2
    /\ nodes[1].content \in {<<"x", "w">>, <<"w", "x">>}
    /\ \E t \in 3..(Len(pieces) - 1) :
          /\ pieces[t].k # "text"
          /\ pieces[t - 1].k = "text"
          /\ \E u \in (t + 1)..Len(pieces) :
                pieces[u].k = "text" /\ Encloser(pieces, u) = 1

\* the shorter of two sequences' lengths
Shorter(s, t) == IF Len(s) <= Len(t) THEN Len(s) ELSE Len(t)

Unterminated(ps) ==
    /\ Len(ps) >= 1
    /\ Plain(ps)
    /\ ps[1].k = "open"
    /\ \A i \in 1..Len(ps) : Depth(ps, i) >= 1
    /\ \A c \in Closes(ps) : ps[Opener(ps, c)].name = ps[c].name

\* C18: when the input ends with elements still open, parse returns Ok(root);
\* there is a node for every opening tag, each but the root a child of the
\* node of the element directly around it, all of them reached by the walk
\* from the root, the open ones on the stack, each with the text met inside it.
C18_UnterminatedAccepted ==
    (Done /\ Unterminated(pieces)) =>
        /\ result = Ok(1)
        /\ Len(nodes) = Cardinality(Opens(pieces))
        /\ Len(node_stack) = Depth(pieces, Len(pieces))
        /\ Range(Preorder(nodes, 1)) = 1..Len(nodes)
        /\ \A i \in Opens(pieces) :
              /\ nodes[Ordinal(pieces, i)].tag.name = <<pieces[i].name>>
              /\ nodes[Ordinal(pieces, i)].content = TextInside(pieces, i)
              /\ Parent(pieces, i) # 0 =>
                    Ordinal(pieces, i)
                      \in Range(nodes[Ordinal(pieces, Parent(pieces, i))].children)

\* the input ends with two elements open, the inner one holding text
C18_Witness ==
    /\ Done
    /\ Unterminated(pieces)
    /\ result = Ok(1)
    /\ Len(node_stack) = 2
    /\ nodes[node_stack[2]].content # <<>>

\* the k-th result of XMLLexer instance i is a token
IsToken(i, k) == lexer = "XMLLexer" /\ lex_results[i][k].res = "Ok"

\* the offset at which the token r ends
TokenEnd(r) == r.position + Len(r.text)

\* C19: every Tag token of the document lexer begins at a "<", its text is
\* the input from there through the first ">" after it, and its descriptor
\* carries the token's offset; the first token begins at offset 0 and every
\* later token begins where the token before it ended.
C19_TagTokenSpan ==
    \A i \in Instances : \A k \in 1..Len(lex_results[i]) :
        IsToken(i, k) =>
            /\ lex_results[i][k].position
                  = IF k = 1 THEN 0 ELSE TokenEnd(lex_results[i][k - 1])
            /\ lex_results[i][k].text
                  = Slice(lex_content, lex_results[i][k].position, TokenEnd(lex_results[i][k]))
            /\ lex_results[i][k].kind = "Tag" =>
                  /\ Head(lex_results[i][k].text) = "<"
                  /\ \A n \in 1..Len(lex_results[i][k].text) :
                        lex_results[i][k].text[n] = ">" <=> n = Len(lex_results[i][k].text)
                  /\ lex_results[i][k].tag.pos = lex_results[i][k].position

\* a Tag token after a text run, away from the start of the document
C19_Witness ==
    /\ lexer = "XMLLexer"
    /\ Len(lex_results[1]) >= 3
    /\ IsToken(1, 2)
    /\ IsToken(1, 3)
    /\ lex_results[1][2].kind = "String"
    /\ lex_results[1][3].kind = "Tag"
    /\ lex_results[1][3].tag.pos > 0

\* what TagParser::parse gives on the tag without the inserted whitespace
Unpadded(src) == TagParser_parse(src.bare, 0)

\* C20: a tag with whitespace inserted between its tokens (after "<", around
\* "/", around the name, around "=", before ">") parses to the descriptor
\* that the tag without that whitespace parses to: same name, kind and
\* attributes.
C20_WhitespaceInsignificant ==
    (tag_pc = "done" /\ tag_src.form = "padded") =>
        /\ Unpadded(tag_src).res = "Ok"
        /\ tag_result.kind = "Ok"
        /\ tag_result.root.name = Unpadded(tag_src).tag.name
        /\ tag_result.root.kind = Unpadded(tag_src).tag.kind
        /\ tag_result.root.attribs = Unpadded(tag_src).tag.attribs

\* an opening tag with an attribute and whitespace at every place
C20_Witness ==
    /\ tag_pc = "done"
    /\ tag_src.form = "padded"
    /\ tag_result.kind = "Ok"
    /\ tag_result.root.kind = "Opening"
    /\ DOMAIN tag_result.root.attribs # {}
    /\ \A i \in 1..5 : tag_src.pads[i] >= 1

\* a closing tag with whitespace after "<", after "/" and before ">"
C20_WitnessClosing ==
    /\ tag_pc = "done"
    /\ tag_src.form = "padded"
    /\ tag_result.kind = "Ok"
    /\ tag_result.root.kind = "Closing"
    /\ tag_src.pads[1] >= 1
    /\ tag_src.pads[2] >= 1
    /\ tag_src.pads[5] >= 1

\* the pieces the lexer has consumed whole with its cursor at pos
Consumed(ps, pos) == {i \in 1..Len(ps) : PieceStart(ps, i + 1) <= pos}

\* the last element of a non-empty sequence
Last_(s) == s[Len(s)]

\* parse is in its loop, or has returned Ok
InLoop == pc = "loop" \/ (Done /\ result.kind = "Ok")

\* the stack is as deep as the opening tags consumed minus the closing tags
\* consumed, its bottom is the root, and each entry above the bottom is the
\* last child of the entry below it
StackIsNesting ==
    /\ Len(node_stack)
          = Cardinality(Opens(pieces) \cap Consumed(pieces, position))
            - Cardinality(Closes(pieces) \cap Consumed(pieces, position))
    /\ node_stack # <<>> => node_stack[1] = 1
    /\ \A k \in 2..Len(node_stack) :
          /\ nodes[node_stack[k - 1]].children # <<>>
          /\ node_stack[k] = Last_(nodes[node_stack[k - 1]].children)

\* C21: at every point of parse after the root is pushed, in a document of
\* whole tags, text runs and whitespace, the stack is as deep as the opening
\* tags consumed minus the closing tags consumed, its bottom is the root, and
\* each entry above the bottom is the last child of the entry below it.
C21_StackIsNesting == (InLoop /\ Plain(pieces)) => StackIsNesting

\* the part of C21 that holds: the same, in documents whose first tag is an
\* opening tag
C21_StackIsNestingUnderOpeningRoot ==
    (InLoop /\ Plain(pieces) /\ pieces[1].k = "open") => StackIsNesting

\* the part of C21 about a node's time on the stack: the stack changes only
\* by the push of the node an opening tag creates and by the pop of its top
\* when a closing tag is consumed
C21_StackLifetime ==
    [][node_stack' # node_stack =>
          \/ /\ content[position + 1] = "<"
             /\ Len(nodes') = Len(nodes) + 1
             /\ node_stack' = Append(node_stack, Len(nodes'))
          \/ /\ content[position + 1] = "<"
             /\ nodes' = nodes
             /\ node_stack # <<>>
             /\ node_stack' = SubSeq(node_stack, 1, Len(node_stack) - 1)]_vars

\* three elements open, one inside the other, after an element was closed
C21_Witness ==
    /\ pc = "loop"
    /\ Plain(pieces)
    /\ pieces[1].k = "open"
    /\ Len(node_stack) = 3
    /\ Len(nodes) > 3

\* the top of the stack
Top(stack) == stack[Len(stack)]

\* node n gets the text of the String token just lexed appended, and nothing
\* else changes in it or in the stack
StringAppended(n) ==
    /\ lexing
    /\ nodes'[n].content = nodes[n].content \o Slice(content, start, position)
    /\ nodes'[n].children = nodes[n].children
    /\ Len(nodes') = Len(nodes)
    /\ node_stack' = node_stack

\* node n gets the node an opening tag creates appended as its one new child
ChildAppended(n) ==
    /\ ~lexing
    /\ content[position + 1] = "<"
    /\ nodes'[n].content = nodes[n].content
    /\ Len(nodes') = Len(nodes) + 1
    /\ nodes'[n].children = Append(nodes[n].children, Len(nodes'))

\* parse is about to consume a Whitespace token
AtWhitespace ==
    /\ pc = "loop"
    /\ ~lexing
    /\ position < Len(content)
    /\ is_whitespace(content[position + 1])

\* C22: a node's content and children change only in a step where it is the
\* top of the stack, by a String token appending its text or by an opening
\* tag appending one child; a Whitespace token changes no node and not the
\* stack; a node off the stack never changes and never returns to the stack.
C22_OnlyTopChanges ==
    [][/\ \A n \in 1..Len(nodes) :
             /\ n <= Len(nodes')
             /\ nodes'[n] # nodes[n] =>
                   /\ node_stack # <<>>
                   /\ n = Top(node_stack)
                   /\ nodes'[n].tag = nodes[n].tag
                   /\ StringAppended(n) \/ ChildAppended(n)
             /\ n \notin Range(node_stack) =>
                   /\ nodes'[n] = nodes[n]
                   /\ n \notin Range(node_stack')
       /\ AtWhitespace => (nodes' = nodes /\ node_stack' = node_stack)]_vars

\* an element with text was closed, and its parent then got another text
\* after it
C22_Witness ==
    /\ pc = "loop"
    /\ node_stack = <<1>>
    /\ Len(nodes[1].children) = 1
    /\ nodes[1].content # <<>>
    /\ nodes[nodes[1].children[1]].content # <<>>
    /\ nodes[nodes[1].children[1]].content # nodes[1].content

\* parse is about to pull a token with the cursor on a "<"
AtTag ==
    /\ pc # "done"
    /\ ~lexing
    /\ position < Len(content)
    /\ content[position + 1] = "<"

\* the offsets of the ">" after the "<" at offset from
ClosersAfter(from) == {i \in (from + 1)..(Len(content) - 1) : content[i + 1] = ">"}

\* the text of the tag whose "<" is at offset from, up to its first ">"
TagTextAt(from) == Slice(content, from, Largest({-i : i \in ClosersAfter(from)}) * (-1) + 1)

\* parse has ended with error e, returning no tree
EndsWith(e) ==
    /\ pc' = "done"
    /\ result' = [kind |-> "Err", err |-> e]

\* C23: parse surfaces the first error in document order and stops: a tag
\* that has no ">" or that the tag parser rejects ends the parse in the step
\* that pulls it, with UnterminatedAngularBracket or with the tag parser's
\* error wrapped as TagParseError, the cursor not past that tag, and no tree;
\* every error is returned in the step that pulled the token at start; and
\* after parse has ended nothing is lexed.
C23_FirstErrorSurfaces ==
    [][/\ (AtTag /\ ClosersAfter(position) = {}) =>
             EndsWith(UnterminatedAngularBracket(position))
       /\ (AtTag /\ ClosersAfter(position) # {}
                 /\ TagParser_parse(TagTextAt(position), position).res = "Err") =>
             /\ EndsWith(TagParseError(TagParser_parse(TagTextAt(position), position).err))
             /\ position' = position + Len(TagTextAt(position))
       /\ (pc' = "done" /\ result'.kind = "Err") =>
             /\ start' = (IF lexing THEN start ELSE position)
             /\ nodes' = nodes
       /\ pc # "done"]_vars

\* a document with two defects, a tag the tag parser rejects and after it a
\* tag without ">", has ended with the error of the first
C23_Witness ==
    /\ Failed("TagParseError")
    /\ result.err.inner.kind = "UnterminatedStringLiteral"
    /\ Len(pieces) = 3
    /\ pieces[1] = SelfClosingP
    /\ pieces[2] = QuotedCloserP
    /\ pieces[3] = UnclosedP
    /\ position = PieceStart(pieces, 2) + 7

\* the characters of a tag text that are no whitespace
Retained(text) == SelectSeq(text, LAMBDA c : ~is_whitespace(c))

\* TagParser::parse has ended with InvalidFirstToken
FailedInvalidFirstToken ==
    /\ tag_pc = "done"
    /\ tag_result = Err(TagInvalidFirstToken)

\* C24: a tag whose text between the brackets is nothing, only whitespace,
\* or a "/" and whitespace (`<>`, `< >`, `</>`) fails in TagParser::parse
\* with InvalidFirstToken.
C24_NoNameIsInvalidFirstToken ==
    (tag_pc = "done" /\ Retained(tag_content) \in {<<>>, <<"/">>}) =>
        FailedInvalidFirstToken

\* the part of C24 that holds: when the tokens were all retained and the
\* first is neither a String nor a ForwardSlash, or is a ForwardSlash and the
\* one after it is no String, the parse fails with InvalidFirstToken
C24_InvalidFirstToken ==
    (/\ tag_pc = "done"
     /\ tag_cursor = Len(tag_content)
     /\ tokens # <<>>
     /\ \/ tokens[1].kind \notin {"String", "ForwardSlash"}
        \/ /\ tokens[1].kind = "ForwardSlash"
           /\ Len(tokens) > 1
           /\ tokens[2].kind # "String") =>
        FailedInvalidFirstToken

\* a "/" followed by a token that is no String has failed the parse
C24_Witness ==
    /\ FailedInvalidFirstToken
    /\ Len(tokens) > 1
    /\ tokens[1].kind = "ForwardSlash"

\* C25: a closing tag consumed in the loop of parse while the stack is empty
\* fails with ClosingTagNeverOpened, obtained being the closing tag's name
\* and position the document offset of that closing tag.
C25_ClosingTagNeverOpened ==
    [][(Enabled("Closing") /\ node_stack = <<>>) =>
          /\ pc' = "done"
          /\ result' = Err(ClosingTagNeverOpened(NameAt(content, position), position))
          /\ content[result'.err.position + 1] = "<"
          /\ nodes' = nodes]_vars

\* the root was opened and closed, and the closing tag after it failed
C25_Witness ==
    /\ Failed("ClosingTagNeverOpened")
    /\ Plain(pieces)
    /\ Len(pieces) >= 3
    /\ pieces[1].k = "open"
    /\ result.err.position > 0
    /\ result.err.position = start
    /\ NameAt(content, start) = result.err.obtained

RECURSIVE TrimEnd(_)
\* text without the whitespace at its end
TrimEnd(text) ==
    IF text # <<>> /\ is_whitespace(text[Len(text)])
    THEN TrimEnd(SubSeq(text, 1, Len(text) - 1))
    ELSE text

\* whether text ends with tail
EndsIn(text, tail) ==
    /\ Len(tail) <= Len(text)
    /\ SubSeq(text, Len(text) - Len(tail) + 1, Len(text)) = tail

\* the tag text has, at offset p, the value v between two quotes q that v
\* does not contain, after the key k and an "="
PairAt(k, v, p, q) ==
    /\ p + Len(v) + 2 <= Len(tag_content)
    /\ Slice(tag_content, p, p + Len(v) + 2) = <<q>> \o v \o <<q>>
    /\ q \notin Range(v)
    /\ EndsIn(TrimEnd(Slice(tag_content, 0, p)), <<"=">>)
    /\ EndsIn(TrimEnd(SubSeq(TrimEnd(Slice(tag_content, 0, p)), 1,
                             Len(TrimEnd(Slice(tag_content, 0, p))) - 1)), k)

\* C26: every descriptor TagParser::parse returns has a non-empty name and
\* non-empty attribute keys, and every value is the text of a literal of the
\* tag without its first and last character, the quotes that delimit it: the
\* value may be empty and does not hold that quote.
C26_NamesAndValues ==
    (tag_pc = "done" /\ tag_result.kind = "Ok") =>
        /\ tag_result.root.name # <<>>
        /\ \A k \in DOMAIN tag_result.root.attribs :
              /\ k # <<>>
              /\ \E p \in 0..Len(tag_content), q \in Quotes :
                    PairAt(k, tag_result.root.attribs[k], p, q)

\* a descriptor with an empty value and a value that is the other quote
C26_Witness ==
    /\ tag_pc = "done"
    /\ tag_result.kind = "Ok"
    /\ \E k, j \in DOMAIN tag_result.root.attribs :
          /\ tag_result.root.attribs[k] = <<>>
          /\ tag_result.root.attribs[j] \in {<<"'">>, <<"\"">>}

\* tokenize has retained every token of the tag, the first a String
Tokenized ==
    /\ tag_pc = "done"
    /\ tag_result.kind # "Panic"
    /\ tag_result.kind = "Err" => tag_result.err.kind # "UnterminatedStringLiteral"
    /\ tokens # <<>>
    /\ tokens[1].kind = "String"

\* the indices of the Equals tokens
EqualsTokens == {i \in 1..Len(tokens) : tokens[i].kind = "Equals"}

\* C27: tokens of a tag that are next to no Equals token are ignored: a tag
\* whose first token is a String and that has no Equals token parses to an
\* Opening descriptor of that name without attributes, whatever bare
\* identifiers, literals, Unknown tokens and "/" follow the name (`<a b c>`
\* and `<a/>` among them); a parse fails only where there is an Equals token,
\* and the keys of a descriptor are the tokens left of the Equals tokens.
C27_StrayTokensIgnored ==
    /\ Tokenized =>
          /\ EqualsTokens = {} =>
                tag_result = Ok(BaseXMLTag(tokens[1].text, <<>>, "Opening", 0))
          /\ tag_result.kind = "Ok" =>
                DOMAIN tag_result.root.attribs = {tokens[i - 1].text : i \in EqualsTokens}
    /\ (tag_pc = "done" /\ tag_src.form = "stray") =>
          tag_result = Ok(BaseXMLTag(<<"a">>, <<>>, "Opening", 0))

\* <a 5b ""/> has parsed: an Unknown token, a stray literal and a "/" after
\* the name
C27_Witness ==
    /\ tag_pc = "done"
    /\ tag_src.form = "stray"
    /\ tag_result.kind = "Ok"
    /\ \E i, j, k \in 2..Len(tokens) :
          /\ tokens[i].kind = "Unknown"
          /\ tokens[j].kind = "StringLiteral"
          /\ tokens[k].kind = "ForwardSlash"

\* <a b c> has parsed
C27_WitnessBare ==
    /\ tag_pc = "done"
    /\ tag_content = <<"a", " ", "b", " ", "c">>
    /\ tag_result.kind = "Ok"

\* the pieces that are <a/> or <a b c>
Strays(ps) == {i \in 1..Len(ps) : ps[i] \in {SelfClosingP, BareP}}

\* the part of C27 about the document parser: in a document of <a/>,
\* <a b c>, </a>, text and whitespace that begins with <a/> or <a b c>,
\* each <a/> and <a b c> pushes a node named a without attributes that
\* stays on the stack until a later </a> pops it
C27_SelfClosingStaysOpen ==
    (InLoop /\ Range(pieces) \cap {QuotedCloserP, UnclosedP} = {} /\ 1 \in Strays(pieces)) =>
        /\ Len(node_stack)
              = Cardinality(Strays(pieces) \cap Consumed(pieces, position))
                - Cardinality(Closes(pieces) \cap Consumed(pieces, position))
        /\ Len(nodes) = Cardinality(Strays(pieces) \cap Consumed(pieces, position))
        /\ \A n \in 1..Len(nodes) :
              /\ nodes[n].tag.name = <<"a">>
              /\ nodes[n].tag.attributes = <<>>

\* <a/> was consumed, text after it has gone into its node, and the node is
\* still open
C27_WitnessStaysOpen ==
    /\ pc = "loop"
    /\ pieces[1] = SelfClosingP
    /\ node_stack = <<1>>
    /\ nodes[1].content # <<>>

\* the attribute loop of TagParser::parse has failed
FailedInLoop ==
    /\ tag_pc = "done"
    /\ tag_result.kind = "Err"
    /\ name # <<>>

\* a neighbour of the token at tag_position is out of the range peek accepts
NeighbourOutOfRange == tag_position - 1 < 1 \/ tag_position + 1 >= Len(tokens)

\* C28: TagParser::parse never returns PeekOutOfBounds: the attribute loop
\* fails only at an Equals token, and it fails with NoTokenAtLocation exactly
\* when a neighbour of that token is out of the range peek accepts.
C28_NeverPeekOutOfBounds ==
    /\ (tag_pc = "done" /\ tag_result.kind = "Err") =>
          tag_result.err.kind \in {"UnterminatedStringLiteral", "NoTokenAtLocation",
                                   "UnexpectedTagToken", "InvalidFirstToken"}
    /\ FailedInLoop =>
          /\ tokens[tag_position + 1].kind = "Equals"
          /\ NeighbourOutOfRange <=> tag_result.err.kind = "NoTokenAtLocation"
          /\ ~NeighbourOutOfRange <=> tag_result.err.kind = "UnexpectedTagToken"

\* an Equals token that is the last token, after an attribute was read, has
\* failed the parse
C28_Witness ==
    /\ FailedInLoop
    /\ tag_position + 1 = Len(tokens)
    /\ DOMAIN attribs # {}
    /\ tag_result.err.kind = "NoTokenAtLocation"

\* an Equals token right after the name has failed the parse
C28_WitnessLeft ==
    /\ FailedInLoop
    /\ tag_position = 1
    /\ kind = "Opening"
    /\ Len(tokens) > 2
    /\ tag_result.err.kind = "NoTokenAtLocation"

\* the first <a b='>'> of the document
FirstQuotedCloser == Largest({-i : i \in {j \in 1..Len(pieces) : pieces[j] = QuotedCloserP}}) * (-1)

\* C29: the document lexer ends a tag at the first ">" after its "<", inside
\* quotes or not: once parse has pulled the tag <a b='>'> (no unclosed "<"
\* before it) it has ended with
\* UnterminatedStringLiteral wrapped as TagParseError, the loc being that of
\* the quote in `a b='`, the cursor after the ">" inside the quotes and no
\* node with an attribute made, while TagParser::parse on the text <a b='>'> gives
\* an Opening descriptor named a with the attribute b = ">".
C29_QuotedCloserCutsTag ==
    (QuotedCloserP \in Range(pieces)
        /\ (\A j \in 1..FirstQuotedCloser : pieces[j] # UnclosedP)
        /\ position > PieceStart(pieces, FirstQuotedCloser)) =>
        /\ Done
        /\ result = Err(TagParseError(UnterminatedStringLiteral(4)))
        /\ start = PieceStart(pieces, FirstQuotedCloser)
        /\ position = PieceStart(pieces, FirstQuotedCloser) + 7
        /\ \A n \in 1..Len(nodes) : nodes[n].tag.attributes = <<>>
        /\ TagParser_parse(QuotedCloserP.text, 0).res = "Ok"
        /\ TagParser_parse(QuotedCloserP.text, 0).tag
              = BaseXMLTag(<<"a">>, [k \in {<<"b">>} |-> <<">">>], "Opening", 0)

\* the tag <a b='>'> inside an open element has ended the parse
C29_Witness ==
    /\ Failed("TagParseError")
    /\ Len(pieces) > 1
    /\ pieces[1] = SelfClosingP
    /\ pieces[2] = QuotedCloserP
    /\ position = PieceStart(pieces, 2) + 7

\* the part of C29 about TagParser::parse given the text directly: the ">"
\* between the quotes is the value of b
C29_DirectParse ==
    (tag_pc = "done" /\ tag_src.form = "quoted") =>
        tag_result = Ok(BaseXMLTag(<<"a">>, [k \in {<<"b">>} |-> <<">">>], "Opening", 0))

\* <a b='>'> given to TagParser::parse has parsed
C29_WitnessDirect ==
    /\ tag_pc = "done"
    /\ tag_src.form = "quoted"
    /\ tag_result.kind = "Ok"

\* the k-th result of TagLexer instance i
TagResult(i, k) == lex_results[i][k]

\* where the cursor of instance i must be: after its last token
AfterLastToken(i) ==
    IF lex_results[i] = <<>> \/ TagResult(i, Len(lex_results[i])).res # "Ok"
    THEN lex_position[i]
    ELSE TokenEnd(TagResult(i, Len(lex_results[i])))

\* C30: the tokens of the tag lexer tile its non-empty input: the first
\* begins at offset 0, each later one where the one before it ended, each
\* token's text is the input between its offset and its end, and the cursor
\* is at the end of the last token; Whitespace, Equals and ForwardSlash
\* tokens are one character wide; 'a''b' gives two StringLiteral tokens; an
\* EndOfLine token is empty, at the input's length, the cursor there, and
\* every result after an EndOfLine is that same EndOfLine.
C30_TagTokensTile ==
    (lexer = "TagLexer" /\ lex_content # <<>>) =>
        \A i \in Instances :
            /\ lex_position[i] = AfterLastToken(i)
            /\ lex_position[i] <= Len(lex_content)
            /\ \A k \in 1..Len(lex_results[i]) :
                  /\ TagResult(i, k).res \in {"Ok", "Err"}
                  /\ TagResult(i, k).res = "Err" => k = Len(lex_results[i])
                  /\ TagResult(i, k).res = "Ok" =>
                        /\ TagResult(i, k).position
                              = IF k = 1 THEN 0 ELSE TokenEnd(TagResult(i, k - 1))
                        /\ TokenEnd(TagResult(i, k)) <= Len(lex_content)
                        /\ TagResult(i, k).text
                              = Slice(lex_content, TagResult(i, k).position,
                                      TokenEnd(TagResult(i, k)))
                        /\ TagResult(i, k).kind \in {"Whitespace", "Equals", "ForwardSlash"}
                              => Len(TagResult(i, k).text) = 1
                        /\ TagResult(i, k).kind = "EndOfLine" <=>
                              TagResult(i, k).position = Len(lex_content)
                        /\ TagResult(i, k).kind = "EndOfLine" =>
                              TagResult(i, k).text = <<>>
                        /\ (k > 1 /\ TagResult(i, k - 1).kind = "EndOfLine") =>
                              TagResult(i, k) = TagResult(i, k - 1)
            /\ (lex_content = <<"'", "a", "'", "'", "b", "'">> /\ Len(lex_results[i]) >= 3) =>
                  /\ TagResult(i, 1).kind = "StringLiteral"
                  /\ TagResult(i, 1).text = <<"'", "a", "'">>
                  /\ TagResult(i, 2).kind = "StringLiteral"
                  /\ TagResult(i, 2).text = <<"'", "b", "'">>
                  /\ TagResult(i, 3).kind = "EndOfLine"

\* == lexed to the end as two Equals tokens, and next_token called twice more
C30_Witness ==
    /\ lexer = "TagLexer"
    /\ lex_content = <<"=", "=">>
    /\ Len(lex_results[1]) = 5
    /\ TagResult(1, 1).kind = "Equals"
    /\ TagResult(1, 2).kind = "Equals"
    /\ TagResult(1, 3).kind = "EndOfLine"
    /\ TagResult(1, 5).kind = "EndOfLine"

\* 'a''b' lexed to its end
C30_WitnessLiterals ==
    /\ lex_content = <<"'", "a", "'", "'", "b", "'">>
    /\ Len(lex_results[2]) >= 3

====
